---- MODULE Spec2Model ----
(***************************************************************************)
(* A model of homelab-setup.                                               *)
(*                                                                         *)
(* Spec: the configuration store (internal/config/config.go): one Config   *)
(* object of one process, the configuration file it persists to, and the   *)
(* environment around it (other processes editing the file, I/O failures,  *)
(* a crash of the process).                                                *)
(*                                                                         *)
(* SpecSteps: the setup steps RunPreflightChecks and RunDirectorySetup     *)
(* (internal/steps), the completion markers they test and create, and the  *)
(* reset of the markers from the menu (internal/cli/menu.go).              *)
(*                                                                         *)
(* SpecPipeline: the run of all steps in order, as the menu starts it.     *)
(*                                                                         *)
(* SpecPing: the ICMP probe sendPing (internal/troubleshoot).              *)
(*                                                                         *)
(* SpecDiag: troubleshoot.Run, the probe, the DNS diagnostics and the port *)
(* scan one after another; SpecDiagLive adds the fairness of a process     *)
(* that keeps running.                                                     *)
(*                                                                         *)
(* Each specification moves its own variables and leaves the others at     *)
(* their initial values.                                                   *)
(*                                                                         *)
(* Strings are sequences of one-character strings, so that formatting      *)
(* ("%s=%s\n") and parsing (TrimSpace, SplitN) are computed and not        *)
(* assumed to be inverse to one another.                                   *)
(***************************************************************************)
EXTENDS Integers, Sequences, FiniteSets, TLC

VARIABLES
    file,      \* the target path on disk: [exists, content]
    data,      \* Config.data: map from key to value
    loaded,    \* Config.loaded
    pc,        \* position of the process inside Set/Delete -> Save
    op,        \* the Set/Delete call in progress: [name, key, val, first]
    tmp,       \* the temp file of the Save in progress: [exists, content]
    todo,      \* keys the `for key, value := range c.data` loop has yet to write
    ret,       \* what the last finished call returned
    acked,     \* history: per key, the value of the last Set that returned nil, by
               \* which object (who), and whether the file was edited since (ext)
    preSave,   \* history: the target as renames and other processes left it
    markers,   \* the marker directory: the names of the marker files in it
    cfg,       \* the settings as the steps see them through cfg.GetOrDefault and cfg.Set
    disk,      \* the settings the configuration file holds
    spc,       \* position of the process inside a step, the reset or the pipeline
    loc,       \* the locals of the step in progress
    sret,      \* what the last finished step or marker call returned
    events,    \* what the step invocation in progress (or the last one) did
    run,       \* the RunAll in progress (or the last one)
    ping,      \* the sendPing in progress (or the last one)
    diag,      \* the troubleshoot.Run in progress (or the last one)
    menu       \* the menu: where the operator is in it, and the mode of its UI

cfgVars == <<file, data, loaded, pc, op, tmp, todo, ret, acked, preSave>>

stepVars == <<markers, cfg, disk, spc, loc, sret, events>>

vars == <<cfgVars, stepVars, run, ping, diag, menu>>

----------------------------------------------------------------------------
(* Strings *)

NL == "\n"

\* unicode.IsSpace, for the characters strings.TrimSpace removes
IsSpace(c) == c \in {" ", "\t", "\n", "\r"}

RECURSIVE TrimLeft(_)
TrimLeft(s) ==
    IF s # <<>> /\ IsSpace(Head(s)) THEN TrimLeft(Tail(s)) ELSE s

RECURSIVE TrimRight(_)
TrimRight(s) ==
    IF s # <<>> /\ IsSpace(s[Len(s)]) THEN TrimRight(SubSeq(s, 1, Len(s) - 1)) ELSE s

\* strings.TrimSpace
TrimSpace(s) == TrimRight(TrimLeft(s))

\* strings.HasPrefix(s, c) for a one-character prefix
HasPrefix(s, c) == s # <<>> /\ Head(s) = c

\* strings.Index for a one-character needle: 0 when absent
IndexOf(s, c) ==
    IF \E i \in 1..Len(s) : s[i] = c
    THEN CHOOSE i \in 1..Len(s) : s[i] = c /\ \A j \in 1..(i - 1) : s[j] # c
    ELSE 0

\* strings.SplitN(s, "=", 2)
SplitN2(s) ==
    LET i == IndexOf(s, "=") IN
    IF i = 0 THEN <<s>>
    ELSE <<SubSeq(s, 1, i - 1), SubSeq(s, i + 1, Len(s))>>

\* bufio.ScanLines drops one trailing carriage return of a line
DropCR(s) ==
    IF s # <<>> /\ s[Len(s)] = "\r" THEN SubSeq(s, 1, Len(s) - 1) ELSE s

\* bufio.Scanner with the default split function: the lines of a file, a last line
\* without a newline included
RECURSIVE ScanLines(_)
ScanLines(s) ==
    IF s = <<>> THEN <<>>
    ELSE LET i == IndexOf(s, NL) IN
         IF i = 0 THEN <<DropCR(s)>>
         ELSE <<DropCR(SubSeq(s, 1, i - 1))>> \o ScanLines(SubSeq(s, i + 1, Len(s)))

----------------------------------------------------------------------------
(* Maps *)

EmptyMap == [k \in {} |-> <<>>]

\* c.data[key] = value
Put(d, k, v) == [x \in (DOMAIN d) \cup {k} |-> IF x = k THEN v ELSE d[x]]

\* delete(c.data, key)
Remove(d, k) == [x \in (DOMAIN d) \ {k} |-> d[x]]

----------------------------------------------------------------------------
(* The inputs the model draws from *)

\* keys follow the uppercase convention of the callers
KeySet == {<<"A">>, <<"B">>}

\* values are whatever the caller passes: plain, or with a leading blank (never
\* with a newline, which the file format does not support)
ValSet == {<<"x">>, <<" ", "y">>}

\* a default no Set ever stores
DefSet == {<<"d">>}

\* time.Now() as formatted into the header: one character stands for the stamp
TimeStamps == {"1", "2"}

\* permission bits, as the octal literals of the source: 0600 and 0644
OwnerRW == 6 * 64

WorldReadable == 6 * 64 + 4 * 8 + 4

\* a mode that grants nothing to group and others
OwnerOnly(m) == m % 64 = 0

NoFile == [exists |-> FALSE, content |-> <<>>, mode |-> 0]

OnDisk(c, m) == [exists |-> TRUE, content |-> c, mode |-> m]

\* what another process (an operator's editor, another run of the tool) may leave
\* at the target path: nothing, hand-written pairs with blanks and a comment in a
\* file anyone may read, a last line without newline that repeats a key
ExtFiles ==
    { NoFile,
      OnDisk(<<" ", "B", " ", "=", " ", "x", " ", NL, "#", "A", "=", "x", NL, "A", NL>>,
             WorldReadable),
      OnDisk(<<"A", "=", "x", NL, "A", "=", "y">>, OwnerRW) }

----------------------------------------------------------------------------
(* Results *)

Nil == "nil"
ErrNotFound == "config key not found"
ErrLoad == "failed to load config"
ErrOpen == "failed to open config file"
ErrRead == "scanner error"
ErrLoadBeforeSet == "failed to load existing config before set"
ErrLoadBeforeDelete == "failed to load existing config before delete"
ErrMkdir == "failed to create config directory"
ErrCreateTemp == "failed to create temp file"
ErrChmod == "failed to set permissions on temp file"
ErrSync == "failed to sync temp file"
ErrClose == "failed to close temp file"
ErrRename == "failed to rename temp file to config"

NoRet == [op |-> "none", key |-> <<>>, arg |-> <<>>, val |-> <<>>, found |-> FALSE, err |-> Nil]

Returned(o, k, a, v, f, e) ==
    [op |-> o, key |-> k, arg |-> a, val |-> v, found |-> f, err |-> e]

NoOp == [name |-> "none", key |-> <<>>, val |-> <<>>, first |-> FALSE, changed |-> FALSE]

NoAck == [set |-> FALSE, v |-> <<>>, who |-> "none", ext |-> FALSE]

----------------------------------------------------------------------------
(* Load *)

\* a scanner loop that takes a comment line with '=' for a pair
ParseLine_ReadsComments(d, raw) ==
    LET line == TrimSpace(raw) IN
    IF line = <<>> THEN d
    ELSE LET parts == SplitN2(line) IN
         IF Len(parts) = 2 THEN Put(d, TrimSpace(parts[1]), TrimSpace(parts[2]))
         ELSE d

\* one iteration of the scanner loop of Load on the raw line `raw`
ParseLine(d, raw) ==
    LET line == TrimSpace(raw) IN
    IF line = <<>> \/ HasPrefix(line, "#") THEN d
    ELSE LET parts == SplitN2(line) IN
         IF Len(parts) = 2 THEN Put(d, TrimSpace(parts[1]), TrimSpace(parts[2]))
         ELSE d

\* the scanner loop over the first n lines, merging into the map d
RECURSIVE ParseLines(_, _, _)
ParseLines(d, lines, n) ==
    IF n = 0 \/ lines = <<>> THEN d
    ELSE ParseLines(ParseLine(d, Head(lines)), Tail(lines), n - 1)

\* what a Load of the file content c yields starting from an empty map
ParseFile(c) == ParseLines(EmptyMap, ScanLines(c), Len(ScanLines(c)))

\* how the environment lets a Load end: the file is read to its end, os.Open
\* fails, or the scanner reports an error after n lines
LoadFaults ==
    {[kind |-> "ok", n |-> 0], [kind |-> "open", n |-> 0]}
        \cup {[kind |-> "read", n |-> i] : i \in 0..Len(ScanLines(file.content))}

\* Load without the os.IsNotExist case: a missing file fails in os.Open
LoadResult_MissingFileIsError(ft) ==
    IF ~file.exists \/ ft.kind = "open"
    THEN [data |-> data, loaded |-> loaded, err |-> ErrOpen]
    ELSE IF ft.kind = "read"
    THEN [data |-> ParseLines(data, ScanLines(file.content), ft.n),
          loaded |-> loaded, err |-> ErrRead]
    ELSE [data |-> ParseLines(data, ScanLines(file.content),
                              Len(ScanLines(file.content))),
          loaded |-> TRUE, err |-> Nil]

\* Config.Load under the fault ft: the map, the flag and the error it leaves.
\* Load merges into c.data and never clears it; a failed Load leaves the flag as
\* it was and the pairs it had parsed in the map
LoadResult(ft) ==
    IF ~file.exists
    THEN [data |-> data, loaded |-> TRUE, err |-> Nil]
    ELSE CASE ft.kind = "open" ->
                [data |-> data, loaded |-> loaded, err |-> ErrOpen]
           [] ft.kind = "read" ->
                [data |-> ParseLines(data, ScanLines(file.content), ft.n),
                 loaded |-> loaded, err |-> ErrRead]
           [] OTHER ->
                [data |-> ParseLines(data, ScanLines(file.content),
                                     Len(ScanLines(file.content))),
                 loaded |-> TRUE, err |-> Nil]

LoadOutcomes == {LoadResult(ft) : ft \in LoadFaults}

\* no load took place: the object as it is
AsIs == [data |-> data, loaded |-> loaded, err |-> Nil]

\* ensureLoaded without its test of the flag: every read loads again
NeedLoad_Always == TRUE

\* the test of ensureLoaded
NeedLoad == ~loaded

\* Config.ensureLoaded
EnsureLoadedOutcomes == IF NeedLoad THEN LoadOutcomes ELSE {AsIs}

\* the history of acknowledged writes after an explicit Load: what this object
\* wrote may have been replaced by what it re-read, and is followed no further
AfterReload(a) ==
    [k \in DOMAIN a |-> IF a[k].set /\ a[k].who = "self" THEN NoAck ELSE a[k]]

\* the history after the object is replaced by a newly constructed one
AfterNew(a) ==
    [k \in DOMAIN a |-> IF a[k].set THEN [a[k] EXCEPT !.who = "fresh"] ELSE a[k]]

\* a call of the exported Load
Load ==
    /\ pc = "idle"
    /\ \E r \in LoadOutcomes :
          /\ data' = r.data
          /\ loaded' = r.loaded
          /\ ret' = Returned("Load", <<>>, <<>>, <<>>, FALSE, r.err)
    /\ acked' = AfterReload(acked)
    /\ UNCHANGED <<file, pc, op, tmp, todo, preSave>>
    /\ UNCHANGED <<stepVars, run, ping, diag, menu>>

----------------------------------------------------------------------------
(* The read operations *)

\* Get that goes on to the lookup when the load failed
GetResult_NotFoundOnLoadError(r, k) ==
    IF k \notin DOMAIN r.data THEN Returned("Get", k, <<>>, <<>>, FALSE, ErrNotFound)
    ELSE Returned("Get", k, <<>>, r.data[k], TRUE, Nil)

\* what Get returns once ensureLoaded left r
GetResult(r, k) ==
    IF r.err # Nil THEN Returned("Get", k, <<>>, <<>>, FALSE, ErrLoad)
    ELSE IF k \notin DOMAIN r.data THEN Returned("Get", k, <<>>, <<>>, FALSE, ErrNotFound)
    ELSE Returned("Get", k, <<>>, r.data[k], TRUE, Nil)

Get(k) ==
    /\ pc = "idle"
    /\ \E r \in EnsureLoadedOutcomes :
          /\ data' = r.data
          /\ loaded' = r.loaded
          /\ ret' = GetResult(r, k)
    /\ UNCHANGED <<file, pc, op, tmp, todo, acked, preSave>>
    /\ UNCHANGED <<stepVars, run, ping, diag, menu>>

\* GetOrDefault that goes on to the lookup when the load failed
GetOrDefaultResult_IgnoresLoadError(r, k, d) ==
    IF k \in DOMAIN r.data THEN Returned("GetOrDefault", k, d, r.data[k], TRUE, Nil)
    ELSE Returned("GetOrDefault", k, d, d, FALSE, Nil)

\* what GetOrDefault returns once ensureLoaded left r
GetOrDefaultResult(r, k, d) ==
    IF r.err # Nil THEN Returned("GetOrDefault", k, d, d, FALSE, Nil)
    ELSE IF k \in DOMAIN r.data THEN Returned("GetOrDefault", k, d, r.data[k], TRUE, Nil)
    ELSE Returned("GetOrDefault", k, d, d, FALSE, Nil)

GetOrDefault(k, d) ==
    /\ pc = "idle"
    /\ \E r \in EnsureLoadedOutcomes :
          /\ data' = r.data
          /\ loaded' = r.loaded
          /\ ret' = GetOrDefaultResult(r, k, d)
    /\ UNCHANGED <<file, pc, op, tmp, todo, acked, preSave>>
    /\ UNCHANGED <<stepVars, run, ping, diag, menu>>

\* what Exists returns once ensureLoaded left r
ExistsResult(r, k) ==
    IF r.err # Nil THEN Returned("Exists", k, <<>>, <<>>, FALSE, Nil)
    ELSE Returned("Exists", k, <<>>, <<>>, k \in DOMAIN r.data, Nil)

Exists(k) ==
    /\ pc = "idle"
    /\ \E r \in EnsureLoadedOutcomes :
          /\ data' = r.data
          /\ loaded' = r.loaded
          /\ ret' = ExistsResult(r, k)
    /\ UNCHANGED <<file, pc, op, tmp, todo, acked, preSave>>
    /\ UNCHANGED <<stepVars, run, ping, diag, menu>>

\* what GetAll returns once ensureLoaded left r: a copy of the map (found), or an
\* empty map when the load failed
GetAllResult(r) == Returned("GetAll", <<>>, <<>>, <<>>, r.err = Nil, Nil)

GetAll ==
    /\ pc = "idle"
    /\ \E r \in EnsureLoadedOutcomes :
          /\ data' = r.data
          /\ loaded' = r.loaded
          /\ ret' = GetAllResult(r)
    /\ UNCHANGED <<file, pc, op, tmp, todo, acked, preSave>>
    /\ UNCHANGED <<stepVars, run, ping, diag, menu>>

\* config.New: the process drops its object and constructs one on the same path
New ==
    /\ pc = "idle"
    /\ data' = EmptyMap
    /\ loaded' = FALSE
    /\ ret' = NoRet
    /\ acked' = AfterNew(acked)
    /\ UNCHANGED <<file, pc, op, tmp, todo, preSave>>
    /\ UNCHANGED <<stepVars, run, ping, diag, menu>>

----------------------------------------------------------------------------
(* Set and Delete, up to the call of Save *)

\* the history at the call of Set(k, _) or Delete(k): k has been touched
Touched(a, k) == [a EXCEPT ![k] = NoAck]

\* a Set that loads the file whatever the flag says
SetLoadOutcomes_Always == LoadOutcomes

\* Set finds the object loaded, or loads it with Load (not ensureLoaded); op
\* records for the Save that follows whether c.data[key] = value changed the map
SetLoadOutcomes == IF ~loaded THEN LoadOutcomes ELSE {AsIs}

Set(k, v) ==
    /\ pc = "idle"
    /\ \E r \in SetLoadOutcomes :
          /\ loaded' = r.loaded
          /\ IF r.err # Nil
             THEN /\ data' = r.data
                  /\ ret' = Returned("Set", k, v, <<>>, FALSE, ErrLoadBeforeSet)
                  /\ UNCHANGED <<pc, op, preSave>>
             ELSE /\ data' = Put(r.data, k, v)
                  /\ ret' = NoRet
                  /\ pc' = "mkdir"
                  /\ op' = [name |-> "Set", key |-> k, val |-> v,
                            first |-> ~loaded /\ data = EmptyMap,
                            changed |-> Put(r.data, k, v) # r.data]
                  /\ preSave' = file
    /\ acked' = Touched(acked, k)
    /\ UNCHANGED <<file, tmp, todo>>
    /\ UNCHANGED <<stepVars, run, ping, diag, menu>>

\* Delete finds the object loaded, or loads it with Load
DeleteLoadOutcomes == IF ~loaded THEN LoadOutcomes ELSE {AsIs}

Delete(k) ==
    /\ pc = "idle"
    /\ \E r \in DeleteLoadOutcomes :
          /\ loaded' = r.loaded
          /\ IF r.err # Nil
             THEN /\ data' = r.data
                  /\ ret' = Returned("Delete", k, <<>>, <<>>, FALSE, ErrLoadBeforeDelete)
                  /\ UNCHANGED <<pc, op, preSave>>
             ELSE /\ data' = Remove(r.data, k)
                  /\ ret' = NoRet
                  /\ pc' = "mkdir"
                  /\ op' = [name |-> "Delete", key |-> k, val |-> <<>>,
                            first |-> ~loaded /\ data = EmptyMap,
                            changed |-> Remove(r.data, k) # r.data]
                  /\ preSave' = file
    /\ acked' = Touched(acked, k)
    /\ UNCHANGED <<file, tmp, todo>>
    /\ UNCHANGED <<stepVars, run, ping, diag, menu>>

----------------------------------------------------------------------------
(* Save, one step per system call *)

NoTmp == [exists |-> FALSE, content |-> <<>>, mode |-> 0]

\* os.CreateTemp creates the file with mode 0600
CreateTempMode == OwnerRW

\* a Chmod that leaves the file readable by everyone
ChmodMode_WorldReadable == WorldReadable

\* the mode of tmpFile.Chmod(0600)
ChmodMode == OwnerRW

\* the three header lines: "# UBlue uCore ...", "# Generated: <stamp>", ""
Header(ts) == <<"#", "U", NL, "#", "G", ts, NL, NL>>

\* fmt.Fprintf(tmpFile, "%s=%s\n", key, value)
PairLine(k, v) == k \o <<"=">> \o v \o <<NL>>

\* Save returns e to Set or Delete, which return it to their caller; the deferred
\* os.Remove(tmpPath) has run
SaveReturns(e) ==
    /\ pc' = "idle"
    /\ op' = NoOp
    /\ tmp' = NoTmp
    /\ todo' = {}
    /\ ret' = Returned(op.name, op.key, op.val, <<>>, FALSE, e)

\* os.MkdirAll(dir, 0755)
SaveMkdirAll ==
    /\ pc = "mkdir"
    /\ \/ /\ pc' = "create"
          /\ UNCHANGED <<op, tmp, todo, ret>>
       \/ SaveReturns(ErrMkdir)
    /\ UNCHANGED <<file, data, loaded, acked, preSave>>
    /\ UNCHANGED <<stepVars, run, ping, diag, menu>>

\* a Save that opens the target itself for writing (os.Create truncates it)
CreateTempEffect_InPlace ==
    /\ tmp' = [exists |-> TRUE, content |-> <<>>, mode |-> CreateTempMode]
    /\ file' = OnDisk(<<>>, CreateTempMode)

\* where os.CreateTemp(dir, ".homelab-setup.conf.tmp-*") leaves the target and the
\* new temp file
CreateTempEffect ==
    /\ tmp' = [exists |-> TRUE, content |-> <<>>, mode |-> CreateTempMode]
    /\ UNCHANGED file

SaveCreateTemp ==
    /\ pc = "create"
    /\ \/ /\ pc' = "chmod"
          /\ CreateTempEffect
          /\ UNCHANGED <<op, todo, ret>>
       \/ /\ SaveReturns(ErrCreateTemp)
          /\ UNCHANGED file
    /\ UNCHANGED <<data, loaded, acked, preSave>>
    /\ UNCHANGED <<stepVars, run, ping, diag, menu>>

\* tmpFile.Chmod(0600); on failure the file is closed and Save returns
SaveChmod ==
    /\ pc = "chmod"
    /\ \/ /\ pc' = "header"
          /\ tmp' = [tmp EXCEPT !.mode = ChmodMode]
          /\ UNCHANGED <<op, todo, ret>>
       \/ SaveReturns(ErrChmod)
    /\ UNCHANGED <<file, data, loaded, acked, preSave>>
    /\ UNCHANGED <<stepVars, run, ping, diag, menu>>

\* a write to the temp file whose result the code drops: the text is appended, or
\* the write fails (a full disk) and nothing is
Written(text, ok) == IF ok THEN tmp.content \o text ELSE tmp.content

\* the three Fprint calls of the header, taken as one write, then the range over
\* c.data begins
SaveWriteHeader ==
    /\ pc = "header"
    /\ \E ts \in TimeStamps, ok \in BOOLEAN :
          tmp' = [tmp EXCEPT !.content = Written(Header(ts), ok)]
    /\ todo' = DOMAIN data
    /\ pc' = IF data = EmptyMap THEN "sync" ELSE "pairs"
    /\ UNCHANGED <<file, data, loaded, op, ret, acked, preSave>>
    /\ UNCHANGED <<stepVars, run, ping, diag, menu>>

\* one iteration of the range over c.data, in the order the Go map yields
SaveWritePair ==
    /\ pc = "pairs"
    /\ \E k \in todo, ok \in BOOLEAN :
          /\ tmp' = [tmp EXCEPT !.content = Written(PairLine(k, data[k]), ok)]
          /\ todo' = todo \ {k}
          /\ pc' = IF todo = {k} THEN "sync" ELSE "pairs"
    /\ UNCHANGED <<file, data, loaded, op, ret, acked, preSave>>
    /\ UNCHANGED <<stepVars, run, ping, diag, menu>>

\* tmpFile.Sync(); on failure the file is closed and Save returns
SaveSync ==
    /\ pc = "sync"
    /\ \/ /\ pc' = "close"
          /\ UNCHANGED <<op, tmp, todo, ret>>
       \/ SaveReturns(ErrSync)
    /\ UNCHANGED <<file, data, loaded, acked, preSave>>
    /\ UNCHANGED <<stepVars, run, ping, diag, menu>>

\* tmpFile.Close()
SaveClose ==
    /\ pc = "close"
    /\ \/ /\ pc' = "rename"
          /\ UNCHANGED <<op, tmp, todo, ret>>
       \/ SaveReturns(ErrClose)
    /\ UNCHANGED <<file, data, loaded, acked, preSave>>
    /\ UNCHANGED <<stepVars, run, ping, diag, menu>>

\* os.Rename(tmpPath, c.filePath): the temp file becomes the target, content and
\* mode, or nothing changes and Save returns
SaveRename ==
    /\ pc = "rename"
    /\ \/ /\ file' = OnDisk(tmp.content, tmp.mode)
          /\ preSave' = OnDisk(tmp.content, tmp.mode)
          /\ tmp' = NoTmp
          /\ pc' = "defer"
          /\ UNCHANGED <<op, todo, ret>>
       \/ /\ SaveReturns(ErrRename)
          /\ UNCHANGED <<file, preSave>>
    /\ UNCHANGED <<data, loaded, acked>>
    /\ UNCHANGED <<stepVars, run, ping, diag, menu>>

\* the history when Set or Delete returns nil
Acknowledged(a) ==
    IF op.name = "Set"
    THEN [a EXCEPT ![op.key] = [set |-> TRUE, v |-> op.val, who |-> "self", ext |-> FALSE]]
    ELSE a

\* the deferred os.Remove finds no temp file; Save, and with it Set or Delete,
\* returns nil
SaveDone ==
    /\ pc = "defer"
    /\ SaveReturns(Nil)
    /\ acked' = Acknowledged(acked)
    /\ UNCHANGED <<file, data, loaded, preSave>>
    /\ UNCHANGED <<stepVars, run, ping, diag, menu>>

----------------------------------------------------------------------------
(* The environment *)

\* the history after another process changed the file: what was acknowledged
\* before may no longer be what the file holds
AfterExternalEdit(a) ==
    [k \in DOMAIN a |-> IF a[k].set THEN [a[k] EXCEPT !.ext = TRUE] ELSE a[k]]

\* another process replaces, edits or removes the configuration file
ExternalEdit ==
    /\ \E f \in ExtFiles :
          /\ f # file
          /\ file' = f
          /\ preSave' = f
    /\ acked' = AfterExternalEdit(acked)
    /\ UNCHANGED <<data, loaded, pc, op, tmp, todo, ret>>
    /\ UNCHANGED <<stepVars, run, ping, diag, menu>>

\* the process dies inside Set or Delete; the next one starts with a new object.
\* The disk keeps what it held (a temp file left behind has a name no later
\* CreateTemp reuses and is not modelled further)
Crash ==
    /\ pc # "idle"
    /\ pc' = "idle"
    /\ op' = NoOp
    /\ tmp' = NoTmp
    /\ todo' = {}
    /\ data' = EmptyMap
    /\ loaded' = FALSE
    /\ ret' = NoRet
    /\ acked' = AfterNew(acked)
    /\ UNCHANGED <<file, preSave>>
    /\ UNCHANGED <<stepVars, run, ping, diag, menu>>

----------------------------------------------------------------------------
(* The variables of the steps, the pipeline and the probe, at rest *)

NoLoc ==
    [hasErrors |-> FALSE, errorMessages |-> <<>>, checks |-> <<>>,
     homelabUser |-> "", containersBase |-> ""]

NoStepRet ==
    [op |-> "none", arg |-> <<>>, err |-> Nil, count |-> 0, done |-> FALSE,
     before |-> {}]

NoRun ==
    [active |-> FALSE, caller |-> "none", skipWireGuard |-> FALSE, queue |-> <<>>,
     started |-> <<>>, ran |-> {}, err |-> Nil]

NoPing ==
    [pc |-> "none", pid |-> 0, count |-> 0, i |-> 0, received |-> 0,
     latencies |-> <<>>, res |-> <<>>, err |-> Nil, resolve |-> "untried",
     sends |-> 0, slept |-> FALSE, matched |-> 0, answered |-> 0, oursLat |-> <<>>]

NoDiag ==
    [pc |-> "none", netDown |-> FALSE, ops |-> <<>>, out |-> <<>>, todo |-> <<>>,
     scan |-> <<>>, err |-> Nil]

\* no menu is shown, and the UI asks the operator
NoAsk == [fn |-> "none", arg |-> "", res |-> [value |-> "", err |-> Nil, reads |-> 0]]

NoMenu ==
    [at |-> "none", nonInteractive |-> FALSE, i |-> 0, yes |-> 0, err |-> Nil,
     asked |-> NoAsk]

StepsAtRest ==
    /\ markers = {}
    /\ cfg = EmptyMap
    /\ disk = EmptyMap
    /\ spc = "idle"
    /\ loc = NoLoc
    /\ sret = NoStepRet
    /\ events = {}

ConfigAtRest ==
    /\ file = NoFile
    /\ data = EmptyMap
    /\ loaded = FALSE
    /\ pc = "idle"
    /\ op = NoOp
    /\ tmp = NoTmp
    /\ todo = {}
    /\ ret = NoRet
    /\ acked = [k \in KeySet |-> NoAck]
    /\ preSave = NoFile

----------------------------------------------------------------------------
(* The specification of the configuration store *)

Init ==
    /\ StepsAtRest
    /\ run = NoRun
    /\ ping = NoPing
    /\ diag = NoDiag
    /\ menu = NoMenu
    /\ file \in ExtFiles
    /\ data = EmptyMap
    /\ loaded = FALSE
    /\ pc = "idle"
    /\ op = NoOp
    /\ tmp = NoTmp
    /\ todo = {}
    /\ ret = NoRet
    /\ acked = [k \in KeySet |-> NoAck]
    /\ preSave = file

Next ==
    \/ New
    \/ Load
    \/ \E k \in KeySet : Get(k)
    \/ \E k \in KeySet, d \in DefSet : GetOrDefault(k, d)
    \/ \E k \in KeySet : Exists(k)
    \/ GetAll
    \/ \E k \in KeySet, v \in ValSet : Set(k, v)
    \/ \E k \in KeySet : Delete(k)
    \/ SaveMkdirAll
    \/ SaveCreateTemp
    \/ SaveChmod
    \/ SaveWriteHeader
    \/ SaveWritePair
    \/ SaveSync
    \/ SaveClose
    \/ SaveRename
    \/ SaveDone
    \/ ExternalEdit
    \/ Crash

Spec == Init /\ [][Next]_vars

----------------------------------------------------------------------------
(* The completion markers *)

\* the marker names of the two steps, and the name an older version gave the
\* marker of the directory step
preflightCompletionMarker == "preflight-complete"

directoryCompletionMarker == "directory-setup-complete"

directoryLegacyMarker == "directories-created"

MarkerNames ==
    {preflightCompletionMarker, directoryCompletionMarker, directoryLegacyMarker}

\* the (canonical, legacy) pairs EnsureCanonicalMarker is called with
MarkerPairs == {<<directoryCompletionMarker, directoryLegacyMarker>>}

ErrIO == "IOError"

\* IsComplete(name): the marker file exists
IsMarkerComplete(ms, n) == n \in ms

\* MarkComplete(name): the marker is created, or the creation fails and leaves
\* none; a marker that is there already is left alone and the call succeeds
MarkCompleteOutcomes(ms, n) ==
    IF n \in ms THEN {[markers |-> ms, err |-> Nil]}
    ELSE {[markers |-> ms \cup {n}, err |-> Nil], [markers |-> ms, err |-> ErrIO]}

\* ClearAll(): every marker is removed; or, with markers in the directory, the
\* removal fails and some of them are left
ClearAllOutcomes(ms) ==
    {[markers |-> {}, err |-> Nil]}
        \cup {[markers |-> r, err |-> ErrIO] : r \in (SUBSET ms) \ {{}}}

\* an EnsureCanonicalMarker that removes the legacy marker and creates none
EnsureCanonicalOutcomes_DropsLegacy(ms, canonical, legacy) ==
    IF canonical \in ms
    THEN {[markers |-> ms, done |-> TRUE, err |-> Nil]}
    ELSE IF legacy \in ms
    THEN {[markers |-> ms \ {legacy}, done |-> TRUE, err |-> Nil]}
    ELSE {[markers |-> ms, done |-> FALSE, err |-> Nil]}

\* an EnsureCanonicalMarker that reports the legacy completion without creating
\* the canonical marker
EnsureCanonicalOutcomes_NoMigration(ms, canonical, legacy) ==
    IF canonical \in ms \/ legacy \in ms
    THEN {[markers |-> ms, done |-> TRUE, err |-> Nil]}
    ELSE {[markers |-> ms, done |-> FALSE, err |-> Nil]}

\* EnsureCanonicalMarker(canonical, legacy): true when the canonical marker
\* exists; else, when the legacy marker exists, the canonical marker is created
\* (the legacy one is removed or left) and the result is true, or the creation
\* fails and nothing changes; else false
EnsureCanonicalOutcomes(ms, canonical, legacy) ==
    IF canonical \in ms
    THEN {[markers |-> ms, done |-> TRUE, err |-> Nil]}
    ELSE IF legacy \in ms
    THEN {[markers |-> ms \cup {canonical}, done |-> TRUE, err |-> Nil],
          [markers |-> (ms \cup {canonical}) \ {legacy}, done |-> TRUE, err |-> Nil],
          [markers |-> ms, done |-> FALSE, err |-> ErrIO]}
    ELSE {[markers |-> ms, done |-> FALSE, err |-> Nil]}

\* a call begins: what it is, and the markers it finds
Entered(o, a) ==
    [op |-> o, arg |-> a, err |-> Nil, count |-> 0, done |-> FALSE, before |-> markers]

\* a call returns to the menu
StepReturns(e, d) ==
    /\ spc' = "idle"
    /\ loc' = NoLoc
    /\ sret' = [sret EXCEPT !.err = e, !.done = d]

\* a call of IsComplete(n)
IsCompleteCall(n) ==
    /\ spc = "idle"
    /\ sret' = [Entered("IsComplete", n) EXCEPT !.done = IsMarkerComplete(markers, n)]
    /\ events' = {}
    /\ UNCHANGED <<markers, cfg, disk, spc, loc>>
    /\ UNCHANGED <<cfgVars, run, ping, diag, menu>>

\* a call of MarkComplete(n)
MarkComplete(n) ==
    /\ spc = "idle"
    /\ \E o \in MarkCompleteOutcomes(markers, n) :
          /\ markers' = o.markers
          /\ sret' = [Entered("MarkComplete", n) EXCEPT !.err = o.err]
    /\ events' = {}
    /\ UNCHANGED <<cfg, disk, spc, loc>>
    /\ UNCHANGED <<cfgVars, run, ping, diag, menu>>

\* a call of EnsureCanonicalMarker(canonical, legacy)
EnsureCanonicalMarker(canonical, legacy) ==
    /\ spc = "idle"
    /\ \E o \in EnsureCanonicalOutcomes(markers, canonical, legacy) :
          /\ markers' = o.markers
          /\ sret' = [Entered("EnsureCanonicalMarker", <<canonical, legacy>>)
                         EXCEPT !.err = o.err, !.done = o.done]
    /\ events' = {}
    /\ UNCHANGED <<cfg, disk, spc, loc>>
    /\ UNCHANGED <<cfgVars, run, ping, diag, menu>>

ErrRemoveMarkers == "failed to remove markers"

ErrPromptFailed == "prompt failed"

\* what ui.PromptYesNo returns: an answer, or an error (no terminal, end of input)
YesNoAnswers == {"yes", "no", "error"}

----------------------------------------------------------------------------
(* The prompts of the UI. `typed` is what the operator will type, line by line; *)
(* a read beyond its end fails as a read at the end of the input does. A result *)
(* carries the value, the error and the number of lines read.                   *)

\* the number of lines an operator types at one prompt
MaxTyped == 2

ErrEOF == "EOF"

ErrNoDefault == "non-interactive mode requires a default value"

ErrNoOptions == "no options provided"

ErrInvalidSelection == "invalid selection"

ErrNoPassword == "password prompts are unavailable"

Prompted(value, err, reads) == [value |-> value, err |-> err, reads |-> reads]

\* a PromptYesNo that asks the operator in non-interactive mode too
UsesDefault_Never(nonInteractive) == FALSE

\* if u.nonInteractive
UsesDefault(nonInteractive) == nonInteractive

\* the loop of PromptYesNo on the lines typed, n lines having been read
RECURSIVE YesNoLoop(_, _, _)
YesNoLoop(defaultYes, typed, n) ==
    IF typed = <<>> THEN Prompted(FALSE, ErrEOF, n + 1)
    ELSE CASE Head(typed) = "" -> Prompted(defaultYes, Nil, n + 1)
           [] Head(typed) \in {"y", "yes"} -> Prompted(TRUE, Nil, n + 1)
           [] Head(typed) \in {"n", "no"} -> Prompted(FALSE, Nil, n + 1)
           [] OTHER -> YesNoLoop(defaultYes, Tail(typed), n + 1)

\* UI.PromptYesNo
PromptYesNo(nonInteractive, defaultYes, typed) ==
    IF UsesDefault(nonInteractive) THEN Prompted(defaultYes, Nil, 0)
    ELSE YesNoLoop(defaultYes, typed, 0)

\* UI.PromptInput
PromptInput(nonInteractive, defaultValue, typed) ==
    IF nonInteractive
    THEN IF defaultValue = "" THEN Prompted("", ErrNoDefault, 0)
         ELSE Prompted(defaultValue, Nil, 0)
    ELSE IF typed = <<>> THEN Prompted("", ErrEOF, 1)
    ELSE IF Head(typed) = "" THEN Prompted(defaultValue, Nil, 1)
    ELSE Prompted(Head(typed), Nil, 1)

\* UI.PromptPassword
PromptPassword == Prompted("", ErrNoPassword, 0)

\* strconv.Atoi on the lines the operator is let to type: -1 stands for its error
Atoi(line) ==
    CASE line = "0" -> 0
      [] line = "1" -> 1
      [] line = "2" -> 2
      [] line = "3" -> 3
      [] OTHER -> -1

\* the loop of PromptSelect
RECURSIVE SelectLoop(_, _, _)
SelectLoop(options, typed, n) ==
    IF typed = <<>> THEN Prompted(-1, ErrEOF, n + 1)
    ELSE IF Atoi(Head(typed)) < 1 \/ Atoi(Head(typed)) > Len(options)
    THEN SelectLoop(options, Tail(typed), n + 1)
    ELSE Prompted(Atoi(Head(typed)) - 1, Nil, n + 1)

\* UI.PromptSelect
PromptSelect(nonInteractive, options, typed) ==
    IF Len(options) = 0 THEN Prompted(-1, ErrNoOptions, 0)
    ELSE IF nonInteractive THEN Prompted(0, Nil, 0)
    ELSE SelectLoop(options, typed, 0)

\* the indices of the parts of the line typed at PromptMultiSelect, <<-1>> when
\* one of them is not a number of the list
RECURSIVE SelectedIndices(_, _)
SelectedIndices(options, parts) ==
    IF parts = <<>> THEN <<>>
    ELSE IF Atoi(Head(parts)) < 1 \/ Atoi(Head(parts)) > Len(options) THEN <<-1>>
    ELSE LET rest == SelectedIndices(options, Tail(parts)) IN
         IF rest = <<-1>> THEN rest ELSE <<Atoi(Head(parts)) - 1>> \o rest

\* UI.PromptMultiSelect; the line typed is given as its comma-separated parts,
\* a blank line as none
PromptMultiSelect(nonInteractive, options, typed) ==
    IF Len(options) = 0 THEN Prompted(<<>>, Nil, 0)
    ELSE IF nonInteractive THEN Prompted([i \in 1..Len(options) |-> i - 1], Nil, 0)
    ELSE IF typed = <<>> THEN Prompted(<<>>, ErrEOF, 1)
    ELSE IF Head(typed) = <<>> THEN Prompted(<<>>, Nil, 1)
    ELSE IF SelectedIndices(options, Head(typed)) = <<-1>>
    THEN Prompted(<<>>, ErrInvalidSelection, 1)
    ELSE Prompted(SelectedIndices(options, Head(typed)), Nil, 1)

\* UI.PromptInputRequired: PromptInput with an empty default until a value comes
RECURSIVE PromptInputRequired(_, _, _)
PromptInputRequired(nonInteractive, typed, n) ==
    LET r == PromptInput(nonInteractive, "", typed) IN
    IF r.err # Nil THEN Prompted("", r.err, n + r.reads)
    ELSE IF r.value = "" THEN PromptInputRequired(nonInteractive, Tail(typed), n + r.reads)
    ELSE Prompted(r.value, Nil, n + r.reads)

\* the lines of up to MaxTyped an operator types, each drawn from `lines`
TypedFrom(lines) == UNION {[1..n -> lines] : n \in 0..MaxTyped}

\* the answer of PromptYesNo as the steps and the menu tell it apart
YesNoAnswer(r) == IF r.err # Nil THEN "error" ELSE IF r.value THEN "yes" ELSE "no"

\* what the operator may type at a yes/no prompt
YesNoLines == {"", "y", "no", "?"}

\* the answers a call of PromptYesNo with the default defaultYes can bring
PromptYesNoAnswers(defaultYes) ==
    {YesNoAnswer(PromptYesNo(menu.nonInteractive, defaultYes, typed)) :
        typed \in TypedFrom(YesNoLines)}

\* resetSetup that clears the markers whatever the answer
ResetClears_Unconfirmed(answer) == TRUE

\* resetSetup clears the markers only when the operator confirmed
ResetClears(answer) == answer = "yes"

\* Menu.resetSetup: the confirmation prompt, then ClearAllMarkers
resetSetup ==
    /\ spc = "idle"
    /\ \E answer \in PromptYesNoAnswers(FALSE) :
          IF answer = "error"
          THEN /\ sret' = [Entered("resetSetup", answer) EXCEPT !.err = ErrPromptFailed]
               /\ UNCHANGED markers
          ELSE IF ~ResetClears(answer)
          THEN /\ sret' = Entered("resetSetup", answer)
               /\ UNCHANGED markers
          ELSE \E o \in ClearAllOutcomes(markers) :
                  /\ markers' = o.markers
                  /\ sret' = [Entered("resetSetup", answer)
                                 EXCEPT !.err = IF o.err = Nil THEN Nil
                                                ELSE ErrRemoveMarkers,
                                        !.done = o.err = Nil]
    /\ events' = {"prompt"}
    /\ UNCHANGED <<cfg, disk, spc, loc>>
    /\ run' = NoRun
    /\ UNCHANGED <<cfgVars, ping, diag, menu>>

----------------------------------------------------------------------------
(* The settings, as the steps use them *)

\* cfg.GetOrDefault(key, "") on the settings c
CfgGetOrDefault(c, k) == IF k \in DOMAIN c THEN c[k] ELSE ""

ErrSave == "failed to save"

\* what a Save of the map m in Set(k, v) that returns nil leaves in the file: the
\* lines of all the pairs, or, the write of the line of k having failed unnoticed,
\* all the lines but that one
SavedBy(m, k) == {m, Remove(m, k)}

\* cfg.Set(key, value) on the settings c over the file d: Set puts the pair in the
\* map and saves, and returns nil or the error of the Save, which leaves the file
\* as it was; or its load fails and it returns before it touches the map
CfgSetOutcomes(c, d, k, v) ==
    {[cfg |-> Put(c, k, v), disk |-> w, err |-> Nil] : w \in SavedBy(Put(c, k, v), k)}
        \cup {[cfg |-> Put(c, k, v), disk |-> d, err |-> ErrSave],
              [cfg |-> c, disk |-> d, err |-> ErrLoadBeforeSet]}

\* the settings earlier steps or the operator may have left: the NFS server and
\* the homelab user, each configured or not
InitialSettings ==
    { EmptyMap,
      Put(EmptyMap, "NFS_SERVER", "nas"),
      Put(EmptyMap, "HOMELAB_USER", "core"),
      Put(Put(EmptyMap, "NFS_SERVER", "nas"), "HOMELAB_USER", "core") }

----------------------------------------------------------------------------
(* RunPreflightChecks *)

ErrPreflight == "preflight checks failed"

ErrMarker == "failed to create completion marker"

\* a RunPreflightChecks that never looks at its marker
PreflightSkips_Never(ms) == FALSE

\* the test at the head of RunPreflightChecks
PreflightSkips(ms) == IsMarkerComplete(ms, preflightCompletionMarker)

\* entry: with the marker there, the step says so and returns nil
PreflightEnter ==
    /\ spc = "idle"
    /\ sret' = Entered("RunPreflightChecks", preflightCompletionMarker)
    /\ IF PreflightSkips(markers)
       THEN /\ events' = {"already"}
            /\ spc' = "idle"
            /\ loc' = NoLoc
       ELSE /\ events' = {}
            /\ spc' = "p_os"
            /\ loc' = NoLoc
    /\ UNCHANGED <<markers, cfg, disk>>
    /\ UNCHANGED <<cfgVars, run, ping, diag, menu>>

\* the check named c was run and passed or not
Checked(l, c, passed) == [l EXCEPT !.checks = Append(@, [name |-> c, passed |-> passed])]

\* hasErrors = true; errorMessages = append(errorMessages, err.Error())
Failed(l, c) == [l EXCEPT !.hasErrors = TRUE, !.errorMessages = Append(@, c)]

\* one of the checks whose error is recorded in hasErrors: it passes or fails
FatalCheck(at, next) ==
    /\ spc = at
    /\ spc' = next
    /\ \E passed \in BOOLEAN :
          /\ loc' = IF passed THEN Checked(loc, at, TRUE)
                    ELSE Failed(Checked(loc, at, FALSE), at)
          /\ events' = events \cup {"check"} \cup (IF passed THEN {} ELSE {"fatal"})
    /\ UNCHANGED <<markers, cfg, disk, sret>>
    /\ UNCHANGED <<cfgVars, run, ping, diag, menu>>

\* checkRpmOstree
PreflightRpmOstree == FatalCheck("p_os", "p_pkg")

\* checkRequiredPackages: no package is required, the optional ones only inform;
\* it returns nil
PreflightPackages ==
    /\ spc = "p_pkg"
    /\ spc' = "p_runtime"
    /\ events' = events \cup {"check"}
    /\ loc' = Checked(loc, "p_pkg", TRUE)
    /\ UNCHANGED <<markers, cfg, disk, sret>>
    /\ UNCHANGED <<cfgVars, run, ping, diag, menu>>

\* what the host offers: docker.service active or not, and which Docker Compose
ComposeCommands == {"docker compose", "docker-compose", "none"}

\* checkContainerRuntime: fails without docker.service or without Docker Compose;
\* else it saves the compose command and the runtime, a failed save being a warning
PreflightContainerRuntime ==
    /\ spc = "p_runtime"
    /\ spc' = "p_sudo"
    /\ \E docker \in BOOLEAN, compose \in ComposeCommands :
          IF ~docker \/ compose = "none"
          THEN /\ loc' = Failed(Checked(loc, "p_runtime", FALSE), "p_runtime")
               /\ events' = events \cup {"check", "fatal"}
               /\ UNCHANGED <<cfg, disk>>
          ELSE \E s1 \in CfgSetOutcomes(cfg, disk, "COMPOSE_COMMAND", compose) :
               \E s2 \in CfgSetOutcomes(s1.cfg, s1.disk, "CONTAINER_RUNTIME", "docker") :
                  /\ cfg' = s2.cfg
                  /\ disk' = s2.disk
                  /\ events' = events \cup {"check", "set"}
                        \cup (IF s1.err # Nil \/ s2.err # Nil THEN {"warn-config"} ELSE {})
                  /\ loc' = Checked(loc, "p_runtime", TRUE)
    /\ UNCHANGED <<markers, sret>>
    /\ UNCHANGED <<cfgVars, run, ping, diag, menu>>

\* checkSudoAccess
PreflightSudo == FatalCheck("p_sudo", "p_net")

\* checkNetworkConnectivity
PreflightNetwork == FatalCheck("p_net", "p_nfs")

\* an NFS check whose failure counts as an error of the step
AfterOptionalCheck_Fatal(hasErrors, failed) == hasErrors \/ failed

\* hasErrors after the NFS check: its failure is a warning and changes nothing
AfterOptionalCheck(hasErrors, failed) == hasErrors

\* the NFS check, when a server is configured: checkNFSServer passes or fails
PreflightNFS ==
    /\ spc = "p_nfs"
    /\ spc' = "p_end"
    /\ IF CfgGetOrDefault(cfg, "NFS_SERVER") = ""
       THEN UNCHANGED <<loc, events>>
       ELSE \E passed \in BOOLEAN :
               /\ loc' = [Checked(loc, "p_nfs", passed) EXCEPT
                            !.hasErrors = AfterOptionalCheck(loc.hasErrors, ~passed)]
               /\ events' = events \cup {"check"} \cup (IF passed THEN {} ELSE {"warn-nfs"})
    /\ UNCHANGED <<markers, cfg, disk, sret>>
    /\ UNCHANGED <<cfgVars, run, ping, diag, menu>>

\* a RunPreflightChecks that reports one error whatever failed
ErrorCount_One(errorMessages) == 1

\* "preflight checks failed with %d error(s)", len(errorMessages)
ErrorCount(errorMessages) == Len(errorMessages)

\* a RunPreflightChecks that creates the marker before it looks at hasErrors
PreflightMarks_Always(hasErrors) == TRUE

\* the marker is created only past the test of hasErrors
PreflightMarks(hasErrors) == ~hasErrors

\* the end of RunPreflightChecks: the error of the failed checks, or MarkComplete
\* and its error, or nil
PreflightFinish ==
    /\ spc = "p_end"
    /\ IF ~PreflightMarks(loc.hasErrors)
       THEN /\ events' = events \cup {"failed"}
            /\ spc' = "idle"
            /\ loc' = NoLoc
            /\ sret' = [sret EXCEPT !.err = ErrPreflight,
                                    !.count = ErrorCount(loc.errorMessages)]
            /\ UNCHANGED markers
       ELSE \E o \in MarkCompleteOutcomes(markers, preflightCompletionMarker) :
               /\ markers' = o.markers
               /\ events' = events \cup (IF loc.hasErrors THEN {"failed"} ELSE {"passed"})
                     \cup (IF o.err # Nil THEN {"markfail"} ELSE {})
               /\ StepReturns(IF loc.hasErrors THEN ErrPreflight
                              ELSE IF o.err # Nil THEN ErrMarker ELSE Nil, FALSE)
    /\ UNCHANGED <<cfg, disk>>
    /\ UNCHANGED <<cfgVars, run, ping, diag, menu>>

----------------------------------------------------------------------------
(* RunDirectorySetup *)

ErrMarkerCheck == "failed to check marker"

ErrNoUser == "homelab user not configured"

ErrPrompt == "failed to prompt"

ErrPromptDir == "failed to prompt for containers directory"

ErrContainers == "failed to create container structure"

ErrAppdata == "failed to create appdata directories"

ErrPermission == "permission verification failed"

ErrVerify == "directory structure verification failed"

ErrSaveBase == "failed to save containers base directory"

ErrSaveAppdata == "failed to save appdata base"

ErrSaveAppdataPath == "failed to save appdata path"

appdataBase == "/var/lib/containers/appdata"

\* what the operator may type at the prompt for the containers directory: the
\* default
DirInputs == {"/srv/containers"}

\* the test of the result of ensureCanonicalMarker
DirectorySkips(completed) == completed

\* entry: ensureCanonicalMarker, which may migrate the legacy marker; the step
\* returns its error, or says it is complete and returns nil, or goes on
DirectoryEnter ==
    /\ spc = "idle"
    /\ \E o \in EnsureCanonicalOutcomes(markers, directoryCompletionMarker,
                                        directoryLegacyMarker) :
          /\ markers' = o.markers
          /\ IF o.err # Nil
             THEN /\ sret' = [Entered("RunDirectorySetup", directoryCompletionMarker)
                                 EXCEPT !.err = ErrMarkerCheck]
                  /\ events' = {"markfail"}
                  /\ spc' = "idle"
             ELSE IF DirectorySkips(o.done)
             THEN /\ sret' = Entered("RunDirectorySetup", directoryCompletionMarker)
                  /\ events' = {"already"}
                  /\ spc' = "idle"
             ELSE /\ sret' = Entered("RunDirectorySetup", directoryCompletionMarker)
                  /\ events' = {}
                  /\ spc' = "d_user"
    /\ loc' = NoLoc
    /\ UNCHANGED <<cfg, disk>>
    /\ UNCHANGED <<cfgVars, run, ping, diag, menu>>

\* the step returns the error e of an operation it cannot go on without
DirectoryFails(e) ==
    /\ events' = events \cup {"fatal"}
    /\ StepReturns(e, FALSE)

\* a RunDirectorySetup that goes on without a user
UserMissing_Never(homelabUser) == FALSE

\* if homelabUser == ""
UserMissing(homelabUser) == homelabUser = ""

\* homelabUser := cfg.GetOrDefault("HOMELAB_USER", ""), which is the default when
\* the configuration cannot be loaded; empty is an error
DirectoryUser ==
    /\ spc = "d_user"
    /\ \E loads \in BOOLEAN :
          LET homelabUser == IF loads THEN CfgGetOrDefault(cfg, "HOMELAB_USER") ELSE ""
          IN  IF UserMissing(homelabUser)
              THEN DirectoryFails(ErrNoUser)
              ELSE /\ loc' = [loc EXCEPT !.homelabUser = homelabUser]
                   /\ spc' = "d_existing"
                   /\ UNCHANGED <<sret, events>>
    /\ UNCHANGED <<markers, cfg, disk>>
    /\ UNCHANGED <<cfgVars, run, ping, diag, menu>>

\* a directory configured before is offered with ui.PromptYesNo
DirectoryExisting ==
    /\ spc = "d_existing"
    /\ IF CfgGetOrDefault(cfg, "CONTAINERS_BASE") = ""
       THEN /\ spc' = "d_input"
            /\ UNCHANGED <<loc, sret, events>>
       ELSE \E answer \in PromptYesNoAnswers(TRUE) :
               IF answer = "error"
               THEN /\ events' = events \cup {"prompt", "fatal"}
                    /\ StepReturns(ErrPrompt, FALSE)
               ELSE /\ events' = events \cup {"prompt"}
                    /\ loc' = [loc EXCEPT !.containersBase =
                                  IF answer = "yes"
                                  THEN CfgGetOrDefault(cfg, "CONTAINERS_BASE") ELSE ""]
                    /\ spc' = IF answer = "yes" THEN "d_mk" ELSE "d_input"
                    /\ UNCHANGED sret
    /\ UNCHANGED <<markers, cfg, disk>>
    /\ UNCHANGED <<cfgVars, run, ping, diag, menu>>

\* ui.PromptInput for the containers directory
DirectoryInput ==
    /\ spc = "d_input"
    /\ \E typed \in TypedFrom(DirInputs \cup {""}) :
          LET input == PromptInput(menu.nonInteractive, "/srv/containers", typed) IN
          IF input.err # Nil
          THEN /\ events' = events \cup {"prompt", "fatal"}
               /\ StepReturns(ErrPromptDir, FALSE)
          ELSE /\ events' = events \cup {"prompt"}
               /\ loc' = [loc EXCEPT !.containersBase = input.value]
               /\ spc' = "d_mk"
               /\ UNCHANGED sret
    /\ UNCHANGED <<markers, cfg, disk>>
    /\ UNCHANGED <<cfgVars, run, ping, diag, menu>>

\* an operation of the body that the step cannot go on without: it succeeds with
\* the effects done, or fails, with part of them done or none, and the step returns
FatalOperation(at, next, e, done) ==
    /\ spc = at
    /\ \/ /\ spc' = next
          /\ events' = events \cup done
          /\ UNCHANGED <<loc, sret>>
       \/ \E part \in SUBSET done :
             /\ events' = events \cup part \cup {"fatal"}
             /\ StepReturns(e, FALSE)
    /\ UNCHANGED <<markers, cfg, disk>>
    /\ UNCHANGED <<cfgVars, run, ping, diag, menu>>

\* createBaseStructure
DirectoryCreateBase == FatalOperation("d_mk", "d_appdata", ErrContainers, {"mkdir"})

\* createAppdataDirs
DirectoryCreateAppdata == FatalOperation("d_appdata", "d_perm", ErrAppdata, {"mkdir"})

\* verifyAppdataPermissions: writes a test file, reads it back and removes it
DirectoryVerifyPermissions == FatalOperation("d_perm", "d_nfs", ErrPermission, {"write"})

\* createNFSMountPoints: nothing to do without an NFS server; else the mount
\* points are created, a failure being a warning
DirectoryNFSMountPoints ==
    /\ spc = "d_nfs"
    /\ spc' = "d_verify"
    /\ IF CfgGetOrDefault(cfg, "NFS_SERVER") = ""
       THEN UNCHANGED events
       ELSE \E failed \in BOOLEAN, made \in BOOLEAN :
               /\ ~failed => made
               /\ events' = events \cup (IF made THEN {"mkdir"} ELSE {})
                     \cup (IF failed THEN {"warn-nfs"} ELSE {})
    /\ UNCHANGED <<markers, cfg, disk, loc, sret>>
    /\ UNCHANGED <<cfgVars, run, ping, diag, menu>>

\* verifyStructure
DirectoryVerify == FatalOperation("d_verify", "d_set1", ErrVerify, {"check"})

\* one of the three cfg.Set calls: its error ends the step
DirectorySet(at, next, k, v, e) ==
    /\ spc = at
    /\ \E s \in CfgSetOutcomes(cfg, disk, k, v) :
          /\ cfg' = s.cfg
          /\ disk' = s.disk
          /\ IF s.err # Nil
             THEN /\ events' = events \cup {"set", "fatal"}
                  /\ StepReturns(e, FALSE)
             ELSE /\ events' = events \cup {"set"}
                  /\ spc' = next
                  /\ UNCHANGED <<loc, sret>>
    /\ UNCHANGED markers
    /\ UNCHANGED <<cfgVars, run, ping, diag, menu>>

DirectorySaveBase ==
    DirectorySet("d_set1", "d_set2", "CONTAINERS_BASE", loc.containersBase, ErrSaveBase)

DirectorySaveAppdata ==
    DirectorySet("d_set2", "d_set3", "APPDATA_BASE", appdataBase, ErrSaveAppdata)

DirectorySaveAppdataPath ==
    DirectorySet("d_set3", "d_mark", "APPDATA_PATH", appdataBase, ErrSaveAppdataPath)

\* the end of RunDirectorySetup: MarkComplete and its error, or nil
DirectoryFinish ==
    /\ spc = "d_mark"
    /\ \E o \in MarkCompleteOutcomes(markers, directoryCompletionMarker) :
          /\ markers' = o.markers
          /\ events' = events \cup {"passed"}
                \cup (IF o.err # Nil THEN {"markfail"} ELSE {})
          /\ StepReturns(IF o.err # Nil THEN ErrMarker ELSE Nil, FALSE)
    /\ UNCHANGED <<cfg, disk>>
    /\ UNCHANGED <<cfgVars, run, ping, diag, menu>>

----------------------------------------------------------------------------
(* The specification of the steps *)

InitSteps ==
    /\ ConfigAtRest
    /\ run = NoRun
    /\ ping = NoPing
    /\ diag = NoDiag
    /\ menu = NoMenu
    /\ markers \in {{}, {directoryLegacyMarker}}
    /\ cfg \in InitialSettings
    /\ disk = cfg
    /\ spc = "idle"
    /\ loc = NoLoc
    /\ sret = NoStepRet
    /\ events = {}

NextSteps ==
    \/ \E n \in MarkerNames : IsCompleteCall(n)
    \/ \E n \in MarkerNames : MarkComplete(n)
    \/ \E p \in MarkerPairs : EnsureCanonicalMarker(p[1], p[2])
    \/ resetSetup
    \/ PreflightEnter
    \/ PreflightRpmOstree
    \/ PreflightPackages
    \/ PreflightContainerRuntime
    \/ PreflightSudo
    \/ PreflightNetwork
    \/ PreflightNFS
    \/ PreflightFinish
    \/ DirectoryEnter
    \/ DirectoryUser
    \/ DirectoryExisting
    \/ DirectoryInput
    \/ DirectoryCreateBase
    \/ DirectoryCreateAppdata
    \/ DirectoryVerifyPermissions
    \/ DirectoryNFSMountPoints
    \/ DirectoryVerify
    \/ DirectorySaveBase
    \/ DirectorySaveAppdata
    \/ DirectorySaveAppdataPath
    \/ DirectoryFinish

SpecSteps == InitSteps /\ [][NextSteps]_vars

----------------------------------------------------------------------------
(* RunAll, and the menu entry that starts it *)

\* the fixed order of the steps
StepOrder ==
    <<"preflight", "user", "directory", "wireguard", "nfs", "container", "deployment">>

\* the marker of a step; the steps whose code is at hand name theirs, the others
\* are given the name of the step
StepMarker(s) ==
    CASE s = "preflight" -> preflightCompletionMarker
      [] s = "directory" -> directoryCompletionMarker
      [] OTHER -> s

\* the legacy name of the marker of a step, "" when it has none
StepLegacyMarker(s) == IF s = "directory" THEN directoryLegacyMarker ELSE ""

RECURSIVE Without(_, _)
Without(seq, x) ==
    IF seq = <<>> THEN <<>>
    ELSE IF Head(seq) = x THEN Without(Tail(seq), x)
    ELSE <<Head(seq)>> \o Without(Tail(seq), x)

\* the steps RunAll(skipWireGuard) goes through
StepsToRun(skipWireGuard) ==
    IF skipWireGuard THEN Without(StepOrder, "wireguard") ELSE StepOrder

ErrFatal == "step failed"

\* a runAllLegacySteps that lets RunAll run WireGuard
LegacySkipWireGuard_Not == FALSE

\* the flag runAllLegacySteps passes: RunAll(m.ctx, true)
LegacySkipWireGuard == TRUE

\* a runAllLegacySteps that drops the error of RunAll
LegacyResult_Dropped(err) == Nil

\* what runAllLegacySteps returns: err, after waitEnter
LegacyResult(err) == err

\* RunAll begins, called by `caller` with the flag `skip`
RunAllBegins(caller, skip) ==
    /\ spc = "idle"
    /\ spc' = "runall"
    /\ run' = [active |-> TRUE, caller |-> caller, skipWireGuard |-> skip,
               queue |-> StepsToRun(skip), started |-> <<>>, ran |-> {}, err |-> Nil]
    /\ sret' = Entered(caller, skip)
    /\ events' = {}
    /\ UNCHANGED <<markers, cfg, disk, loc>>
    /\ UNCHANGED <<cfgVars, ping, diag, menu>>

\* Menu.runAllLegacySteps, up to its call of RunAll
runAllLegacySteps == RunAllBegins("runAllLegacySteps", LegacySkipWireGuard)

\* RunAll called without the menu
RunAll(skipWireGuard) == RunAllBegins("RunAll", skipWireGuard)

\* the resolution of the marker of step s: found (or migrated from the legacy
\* name), not found, or failed
ResolveOutcomes(ms, s) ==
    IF StepLegacyMarker(s) = ""
    THEN {[markers |-> ms, done |-> IsMarkerComplete(ms, StepMarker(s)), err |-> Nil]}
    ELSE EnsureCanonicalOutcomes(ms, StepMarker(s), StepLegacyMarker(s))

\* the next step of the order: its marker is resolved; a complete step is
\* skipped, else its Run is invoked
RunAllStartsStep ==
    /\ spc = "runall"
    /\ run.err = Nil
    /\ run.queue # <<>>
    /\ LET s == Head(run.queue) IN
       \E o \in ResolveOutcomes(markers, s) :
          /\ markers' = o.markers
          /\ IF o.err # Nil
             THEN /\ run' = [run EXCEPT !.started = Append(@, s), !.queue = Tail(@),
                                        !.err = ErrMarkerCheck]
                  /\ UNCHANGED spc
             ELSE IF o.done
             THEN /\ run' = [run EXCEPT !.started = Append(@, s), !.queue = Tail(@)]
                  /\ UNCHANGED spc
             ELSE /\ run' = [run EXCEPT !.started = Append(@, s), !.queue = Tail(@),
                                        !.ran = @ \cup {s}]
                  /\ spc' = "running"
    /\ UNCHANGED <<cfg, disk, loc, sret, events>>
    /\ UNCHANGED <<cfgVars, ping, diag, menu>>

\* the Run of the step returns: a fatal error ends RunAll; on success the marker
\* is persisted, and a failure to persist it ends RunAll too
RunAllStepReturns ==
    /\ spc = "running"
    /\ spc' = "runall"
    /\ LET s == run.started[Len(run.started)] IN
       \/ /\ run' = [run EXCEPT !.err = ErrFatal]
          /\ UNCHANGED markers
       \/ \E o \in MarkCompleteOutcomes(markers, StepMarker(s)) :
             /\ markers' = o.markers
             /\ run' = [run EXCEPT !.err = IF o.err # Nil THEN ErrMarker ELSE Nil]
    /\ UNCHANGED <<cfg, disk, loc, sret, events>>
    /\ UNCHANGED <<cfgVars, ping, diag, menu>>

\* RunAll returns: the error that ended it, or nil after the last step; the menu
\* entry returns what RunAll returned
RunAllReturns ==
    /\ spc = "runall"
    /\ run.err # Nil \/ run.queue = <<>>
    /\ spc' = "idle"
    /\ run' = [run EXCEPT !.active = FALSE]
    /\ sret' = [sret EXCEPT !.err = IF run.caller = "runAllLegacySteps"
                                    THEN LegacyResult(run.err) ELSE run.err]
    /\ UNCHANGED <<markers, cfg, disk, loc, events>>
    /\ UNCHANGED <<cfgVars, ping, diag, menu>>

----------------------------------------------------------------------------
(* The specification of the pipeline *)

InitPipeline ==
    /\ ConfigAtRest
    /\ ping = NoPing
    /\ diag = NoDiag
    /\ menu = NoMenu
    /\ run = NoRun
    /\ markers \in {{}, {directoryLegacyMarker}}
    /\ cfg = EmptyMap
    /\ disk = EmptyMap
    /\ spc = "idle"
    /\ loc = NoLoc
    /\ sret = NoStepRet
    /\ events = {}

NextPipeline ==
    \/ runAllLegacySteps
    \/ \E skip \in BOOLEAN : RunAll(skip)
    \/ RunAllStartsStep
    \/ RunAllStepReturns
    \/ RunAllReturns
    \/ resetSetup

SpecPipeline == InitPipeline /\ [][NextPipeline]_vars

----------------------------------------------------------------------------
(* sendPing *)

\* the largest probe count tried
MaxCount == 4

\* 0xffff + 1: the identifier of an echo request is os.Getpid() & 0xffff
IdModulus == 65536

\* the milliseconds above which the average latency makes the link unstable
UnstableLatency == 100

Counts == 0..MaxCount

\* process identifiers, one of them wider than 16 bits
Pids == {4242, IdModulus + 7}

\* round-trip times, in milliseconds
Durations == {50, 150}

ErrListen == "listen failed"
ErrResolve == "resolve failed"

\* the identifier sendPing puts in its requests and expects in the replies
EchoID(pid) == pid % IdModulus

\* what ReadFrom and ParseMessage can hand to probe i: an echo reply or a message
\* of another type, bearing our identifier or that of another process, and the
\* sequence number of this probe or another one
Replies(pid, i) ==
    [type : {"echo-reply", "other"},
     id : {EchoID(pid), EchoID(pid + 1)},
     seq : {i, i + 1}]

\* the steps of a probe that can fail before a message is parsed; each failure
\* goes on with the next probe
ProbeFailures == {"marshal", "write", "deadline", "read", "parse"}

\* a sendPing that takes every echo reply for its own
Counted_AnyEchoReply(reply, pid, i) == reply.type = "echo-reply"

\* a reply is counted when it is an echo reply with our identifier and the
\* sequence number of the request just sent
Counted(reply, pid, i) ==
    /\ reply.type = "echo-reply"
    /\ reply.id = EchoID(pid)
    /\ reply.seq = i

\* the replies that are ours, as the network sees them
IsOurs(reply, pid, i) ==
    reply.type = "echo-reply" /\ reply.id = pid % IdModulus /\ reply.seq = i

RECURSIVE SumSeq(_)
SumSeq(seq) == IF seq = <<>> THEN 0 ELSE Head(seq) + SumSeq(Tail(seq))

\* float64 values are kept as fractions <<numerator, denominator>>; a zero
\* denominator is the NaN of 0/0
FloatDiv(a, b) == <<a, b>>

FloatMul(x, k) == <<x[1] * k, x[2]>>

FloatGreater(x, k) == x[2] > 0 /\ x[1] > k * x[2]

\* loss := float64(count-received) / float64(count) * 100.0
PacketLossOf(count, received) == FloatMul(FloatDiv(count - received, count), 100)

\* a sendPing whose average is the sum of the latencies
AvgLatencyOf_Sum(latencies, received) == SumSeq(latencies)

\* avgLat = totalLat / received when received > 0, else 0
AvgLatencyOf(latencies, received) ==
    IF received > 0 THEN SumSeq(latencies) \div received ELSE 0

\* a sendPing for which the threshold itself is unstable
IsUnstable_AtThreshold(loss, avgLat) ==
    FloatGreater(loss, 0) \/ avgLat >= UnstableLatency

\* unstable := loss > 0 || avgLat > 100*time.Millisecond
IsUnstable(loss, avgLat) == FloatGreater(loss, 0) \/ avgLat > UnstableLatency

\* the pingResult of sendPing
PingResultOf(count, received, latencies) ==
    LET loss == PacketLossOf(count, received)
        avgLat == AvgLatencyOf(latencies, received)
    IN  [PacketLoss |-> loss, AvgLatency |-> avgLat,
         Unstable |-> IsUnstable(loss, avgLat)]

PingUnchanged == UNCHANGED <<cfgVars, stepVars, run, diag, menu>>

\* a sendPing that resolves the target before it opens the socket
PingBegins_ResolvesFirst(count, pid) ==
    \E e \in {Nil, ErrListen, ErrResolve} :
       ping' = [NoPing EXCEPT !.pc = IF e = Nil THEN "loop" ELSE "failed",
                              !.pid = pid, !.count = count, !.err = e,
                              !.resolve = IF e = ErrResolve THEN "failed" ELSE "ok"]

\* sendPing(addr, count, timeout) up to its loop: ListenPacket, then
\* ResolveIPAddr; a failure of either returns a nil result and the error
PingBegins(count, pid) ==
    \E e \in {Nil, ErrListen, ErrResolve} :
       ping' = [NoPing EXCEPT !.pc = IF e = Nil THEN "loop" ELSE "failed",
                              !.pid = pid, !.count = count, !.err = e,
                              !.resolve = CASE e = ErrListen -> "untried"
                                            [] e = ErrResolve -> "failed"
                                            [] OTHER -> "ok"]

PingStart ==
    /\ ping.pc \in {"none", "done", "failed"}
    /\ \E count \in Counts, pid \in Pids : PingBegins(count, pid)
    /\ PingUnchanged

\* the failures after which the request of the probe is on the wire
SentBefore == {"deadline", "read", "parse"}

\* probe i fails before a message is parsed: continue, without the delay. The
\* failures after WriteTo leave a request sent; behind a packet that cannot be
\* parsed the matching reply may still arrive within the timeout
ProbeFails ==
    /\ ping.pc = "loop"
    /\ ping.i < ping.count
    /\ \E f \in ProbeFailures, later \in BOOLEAN :
          /\ later => f = "parse"
          /\ ping' = [ping EXCEPT
                        !.i = @ + 1,
                        !.sends = IF f \in SentBefore THEN @ + 1 ELSE @,
                        !.slept = IF f \in SentBefore THEN FALSE ELSE @,
                        !.answered = IF later THEN @ + 1 ELSE @]
    /\ PingUnchanged

\* probe i gets a message (the network has not wholly failed), the first one its
\* single ReadFrom returns: it is
\* counted, with its latency, when it is ours; then the delay. Behind a message
\* that is not ours the matching reply may still arrive within the timeout
ProbeReply ==
    /\ ping.pc = "loop"
    /\ ping.i < ping.count
    /\ ~diag.netDown
    /\ \E reply \in Replies(ping.pid, ping.i), duration \in Durations,
          later \in BOOLEAN :
          /\ later => ~IsOurs(reply, ping.pid, ping.i)
          /\ ping' = [ping EXCEPT
                        !.i = @ + 1,
                        !.sends = @ + 1,
                        !.slept = TRUE,
                        !.received = IF Counted(reply, ping.pid, ping.i) THEN @ + 1 ELSE @,
                        !.latencies = IF Counted(reply, ping.pid, ping.i)
                                      THEN Append(@, duration) ELSE @,
                        !.matched = IF IsOurs(reply, ping.pid, ping.i) THEN @ + 1 ELSE @,
                        !.oursLat = IF IsOurs(reply, ping.pid, ping.i)
                                    THEN Append(@, duration) ELSE @,
                        !.answered = IF IsOurs(reply, ping.pid, ping.i) \/ later
                                     THEN @ + 1 ELSE @]
    /\ PingUnchanged

\* after the loop: the loss, the average latency and the verdict
PingFinish ==
    /\ ping.pc = "loop"
    /\ ping.i >= ping.count
    /\ ping' = [ping EXCEPT !.pc = "done",
                            !.res = <<PingResultOf(ping.count, ping.received,
                                                   ping.latencies)>>]
    /\ PingUnchanged

InitPing ==
    /\ ConfigAtRest
    /\ StepsAtRest
    /\ run = NoRun
    /\ ping = NoPing
    /\ diag = NoDiag
    /\ menu = NoMenu

NextPing ==
    \/ PingStart
    \/ ProbeFails
    \/ ProbeReply
    \/ PingFinish

SpecPing == InitPing /\ [][NextPing]_vars

----------------------------------------------------------------------------
(* troubleshoot.Run: the probe, the DNS diagnostics, the port scan *)

\* the count checkNetworkInstability passes to sendPing
PingCount == 5

\* the ports of checkPortScanning, in the order of its list
ScanPorts ==
    <<[Port |-> "80", Service |-> "HTTP (NPM)"],
      [Port |-> "443", Service |-> "HTTPS (NPM)"],
      [Port |-> "9000", Service |-> "Portainer"],
      [Port |-> "9443", Service |-> "Portainer (SSL)"]>>

\* a wait returns when the code bounds it by a timeout; else it returns only when
\* the network lets it complete
WaitReturns(bounded) == bounded \/ ~diag.netDown

\* net.LookupHost(GoogleHost): no deadline is given
SystemLookupBounded == FALSE

\* net.DialTimeout("udp", GoogleDNS+":53", 2*time.Second)
ResolverDialBounded == TRUE

\* r.LookupHost(context.Background(), GoogleHost): the context has no deadline;
\* the Timeout of the Dialer bounds the dial only
ResolverLookupBounded == FALSE

\* net.DialTimeout("tcp", address, 2*time.Second)
ConnectBounded == TRUE

DiagUnchanged == UNCHANGED <<cfgVars, stepVars, run, menu>>

\* the call o returned r
Did(o, r) == [diag EXCEPT !.ops = Append(@, <<o, r>>)]

\* Run, up to the call of sendPing inside checkNetworkInstability; the network
\* is working or wholly failed
Run ==
    /\ diag.pc = "none"
    /\ \E down \in BOOLEAN, pid \in Pids :
          /\ diag' = [NoDiag EXCEPT !.pc = "ping", !.netDown = down,
                                    !.out = <<"1. Network Instability Check">>]
          /\ PingBegins(PingCount, pid)
    /\ DiagUnchanged

\* if err != nil: "Ping failed", and return
PingFailed(err) == err # Nil

\* what checkNetworkInstability prints of the result of sendPing
PingReport(res, err) ==
    IF PingFailed(err) THEN <<"Ping failed">>
    ELSE <<"Packet Loss", "Avg Latency",
           IF res[1].Unstable THEN "UNSTABLE" ELSE "STABLE">>

\* checkNetworkInstability after sendPing returned; the result is a local of it,
\* gone when it returns
checkNetworkInstability ==
    /\ diag.pc = "ping"
    /\ ping.pc \in {"done", "failed"}
    /\ diag' = [diag EXCEPT !.pc = "dns",
                            !.out = @ \o PingReport(ping.res, ping.err)]
    /\ ping' = NoPing
    /\ DiagUnchanged

\* the results of a host lookup: addresses, no address without an error, an error
LookupResults == {"addresses", "empty", "error"}

\* a lookup succeeded: err == nil && len(ips) > 0
LookupSucceeded(r) == r = "addresses"

\* a checkDNS that goes through its tiers whatever the lookup gave
ShortCircuits_Never(r) == FALSE

\* checkDNS stops after a successful system lookup
ShortCircuits(r) == LookupSucceeded(r)

\* checkDNS up to the test of the system lookup
DNSSystemLookup ==
    /\ diag.pc = "dns"
    /\ WaitReturns(SystemLookupBounded)
    /\ \E r \in LookupResults :
          /\ diag.netDown => r = "error"
          /\ diag' = [Did("LookupHost", r) EXCEPT
                        !.pc = IF ShortCircuits(r) THEN "ports" ELSE "dns-conf",
                        !.out = @ \o <<"2. DNS Diagnostics">> \o
                                IF LookupSucceeded(r)
                                THEN <<"Resolution successful">>
                                ELSE <<"Resolution failed", "Starting tiered diagnostics">>,
                        !.todo = IF ShortCircuits(r) THEN ScanPorts ELSE @]
    /\ UNCHANGED ping
    /\ DiagUnchanged

\* Tier 1: /etc/resolv.conf is printed, or a warning when it cannot be read
DNSResolvConf ==
    /\ diag.pc = "dns-conf"
    /\ \E readable \in BOOLEAN :
          diag' = [Did("ReadFile", IF readable THEN "read" ELSE "unreadable") EXCEPT
                     !.pc = "dns-dial",
                     !.out = @ \o <<"Tier 1">> \o
                             IF readable THEN <<"resolv.conf">>
                             ELSE <<"Could not read resolv.conf">>]
    /\ UNCHANGED ping
    /\ DiagUnchanged

\* a checkDNS that looks up through a resolver it could not reach
LooksUpThrough_Always(reached) == TRUE

\* the lookup through the public resolver is inside the else of the dial
LooksUpThrough(reached) == reached

\* Tier 2: the dial of the public resolver and the diagnosis drawn from it
DNSDialResolver ==
    /\ diag.pc = "dns-dial"
    /\ WaitReturns(ResolverDialBounded)
    /\ \E reached \in BOOLEAN :
          /\ diag.netDown => ~reached
          /\ diag' = [Did("DialTimeout", IF reached THEN "reached" ELSE "unreachable") EXCEPT
                        !.pc = IF LooksUpThrough(reached) THEN "dns-direct" ELSE "ports",
                        !.out = @ \o <<"Tier 2">> \o
                                IF reached
                                THEN <<"Local DNS configuration might be broken">>
                                ELSE <<"Likely a gateway/internet connectivity issue">>,
                        !.todo = IF LooksUpThrough(reached) THEN @ ELSE ScanPorts]
    /\ UNCHANGED ping
    /\ DiagUnchanged

\* the lookup through the public resolver, and its outcome
DNSDirectLookup ==
    /\ diag.pc = "dns-direct"
    /\ WaitReturns(ResolverLookupBounded)
    /\ \E r \in LookupResults :
          /\ diag.netDown => r = "error"
          /\ diag' = [Did("Resolver.LookupHost", r) EXCEPT
                        !.pc = "ports",
                        !.out = Append(@, IF LookupSucceeded(r)
                                          THEN "Direct resolution successful"
                                          ELSE "Direct resolution failed"),
                        !.todo = ScanPorts]
    /\ UNCHANGED ping
    /\ DiagUnchanged

\* what a connect can give: a connection, a refusal, a timeout
ConnectResults == {"connected", "refused", "timeout"}

\* a checkPortScanning for which a refused connection is an open port
PortStatus_RefusedOpen(r) == IF r = "timeout" THEN "CLOSED/FILTERED" ELSE "OPEN"

\* status := "CLOSED/FILTERED"; if err == nil { status = "OPEN" }
PortStatus(r) == IF r = "connected" THEN "OPEN" ELSE "CLOSED/FILTERED"

\* one turn of the loop of checkPortScanning: the connect, and the line printed
\* for the port
PortProbe ==
    /\ diag.pc = "ports"
    /\ diag.todo # <<>>
    /\ WaitReturns(ConnectBounded)
    /\ \E r \in ConnectResults :
          /\ diag.netDown => r = "timeout"
          /\ LET p == Head(diag.todo) IN
             diag' = [diag EXCEPT
                        !.scan = Append(@, [Port |-> p.Port, Service |-> p.Service,
                                            result |-> r, status |-> PortStatus(r)]),
                        !.todo = Tail(@)]
    /\ UNCHANGED ping
    /\ DiagUnchanged

\* the list is through: checkPortScanning returns, and Run returns nil
RunReturns ==
    /\ diag.pc = "ports"
    /\ diag.todo = <<>>
    /\ diag' = [diag EXCEPT !.pc = "returned"]
    /\ UNCHANGED ping
    /\ DiagUnchanged

InitDiag ==
    /\ ConfigAtRest
    /\ StepsAtRest
    /\ run = NoRun
    /\ ping = NoPing
    /\ diag = NoDiag
    /\ menu = NoMenu

\* the loop of sendPing, inside Run
PingInRun == diag.pc = "ping" /\ (ProbeFails \/ ProbeReply \/ PingFinish)

NextDiag ==
    \/ Run
    \/ PingInRun
    \/ checkNetworkInstability
    \/ DNSSystemLookup
    \/ DNSResolvConf
    \/ DNSDialResolver
    \/ DNSDirectLookup
    \/ PortProbe
    \/ RunReturns

SpecDiag == InitDiag /\ [][NextDiag]_vars

\* the process keeps running: a step that can be taken is taken
SpecDiagLive == SpecDiag /\ WF_vars(NextDiag)

----------------------------------------------------------------------------
(* Helpers of the properties *)

\* every complete text the pair loop of Save can produce for the keys ks of m
RECURSIVE PairTexts(_, _)
PairTexts(m, ks) ==
    IF ks = {} THEN {<<>>}
    ELSE UNION {{PairLine(k, m[k]) \o t : t \in PairTexts(m, ks \ {k})} : k \in ks}

\* c is a complete rendering of the map m: one line per pair and nothing else,
\* after the header (which is cosmetic: a rendering without it is let pass)
IsComplete(c, m) ==
    \E t \in PairTexts(m, DOMAIN m) :
        c = t \/ \E ts \in TimeStamps : c = Header(ts) \o t

\* the content c holds the line "k=v" for every pair of m
HasPairs(c, m) ==
    \A k \in DOMAIN m :
        \E i \in 1..Len(ScanLines(c)) : ScanLines(c)[i] \o <<NL>> = PairLine(k, m[k])

\* the rename of Save succeeded in this step
Renamed == pc = "rename" /\ pc' = "defer"

\* this step is the call named o, from its entry to its return: the process was
\* idle, the result is o's, and the step is not one of another process
Call(o) == pc = "idle" /\ pc' = "idle" /\ ret'.op = o /\ ~ExternalEdit

----------------------------------------------------------------------------
(* C1 *)

\* C1: round trip across instances. Whenever Get(k) returns on an object that was
\* constructed after a Set(k, v) returned nil, with no Set or Delete of k and no
\* edit of the file by another process in between, it returns (v, nil). The
\* statement is made where the environment did its part: the load of the new
\* object did not fail, and the line "k=v" that Save formatted is in the file.
C1_RoundTripAcrossInstances ==
    (/\ pc = "idle"
     /\ ret.op = "Get"
     /\ ret.err # ErrLoad
     /\ acked[ret.key].set
     /\ acked[ret.key].who = "fresh"
     /\ ~acked[ret.key].ext
     /\ HasPairs(file.content, Put(EmptyMap, ret.key, acked[ret.key].v)))
        => (ret.err = Nil /\ ret.val = acked[ret.key].v)

----------------------------------------------------------------------------
(* C2 *)

\* C2: same-process visibility. Whenever Get(k), GetOrDefault(k, d) or Exists(k)
\* returns on the object on which Set(k, v) returned nil, with no Set(k, _),
\* Delete(k) or explicit Load on it in between, Get returns (v, nil), GetOrDefault
\* returns v and Exists returns true, whatever happened to the file meanwhile.
C2_SameProcessVisibility ==
    (/\ pc = "idle"
     /\ ret.op \in {"Get", "GetOrDefault", "Exists"}
     /\ acked[ret.key].set
     /\ acked[ret.key].who = "self")
        => CASE ret.op = "Get" -> ret.err = Nil /\ ret.val = acked[ret.key].v
             [] ret.op = "GetOrDefault" -> ret.val = acked[ret.key].v
             [] OTHER -> ret.found

\* a value with a leading blank, set and read back by the same object while
\* another process has replaced the file
C2_Witness ==
    /\ pc = "idle"
    /\ ret.op = "Get"
    /\ acked[ret.key].set
    /\ acked[ret.key].who = "self"
    /\ acked[ret.key].ext
    /\ ret.val = <<" ", "y">>

----------------------------------------------------------------------------
(* C3 *)

\* C3: crash atomicity of Save. The target changes only by another process or by
\* the rename of Save, and the rename puts the complete rendering of the map in
\* its place: whenever the process stops, the target holds the complete previous
\* or the complete new content, and the new one once Set has returned nil.
C3_CrashAtomicSave ==
    [][(file' # file /\ ~ExternalEdit)
          => (Renamed /\ IsComplete(file'.content, data))]_vars

----------------------------------------------------------------------------
(* C4 *)

\* C4: a failed persist leaves the file untouched. Whenever Set or Delete has
\* returned the error of a failed chmod, sync, close or rename, the target is
\* what it was when Save began (or what another process made of it since).
C4_FailedPersistLeavesFile ==
    (/\ pc = "idle"
     /\ ret.op \in {"Set", "Delete"}
     /\ ret.err \in {ErrChmod, ErrSync, ErrClose, ErrRename})
        => file = preSave

\* a Set whose rename failed: the file is there and still holds the old pairs,
\* not the map in memory
C4_Witness ==
    /\ pc = "idle"
    /\ ret.op = "Set"
    /\ ret.err = ErrRename
    /\ file.exists
    /\ ParseFile(file.content) # data

----------------------------------------------------------------------------
(* C5 *)

\* C5: load before mutate in Set. When Set(k, v) is the first operation on a new
\* object, the file it renames into place (after which it returns nil) holds the
\* line of every pair of the map, that is of every pair loaded from the previous
\* file and of k = v; and a Set that returns the error of a failed load has not
\* changed the file and does not go on to Save.
C5_SetLoadsBeforeMutate ==
    /\ [][(Renamed /\ op.name = "Set" /\ op.first)
             => HasPairs(file'.content, data)]_vars
    /\ [][(pc = "idle" /\ ~ExternalEdit /\ ret'.op = "Set"
               /\ ret'.err = ErrLoadBeforeSet)
             => (file' = file /\ pc' = "idle")]_vars

----------------------------------------------------------------------------
(* C6 *)

\* C6: the in-memory map is authoritative. The part on writes: whenever a Set or
\* Delete succeeds, the file it leaves is exactly the map of the object, that is,
\* a newly constructed object loads from it the map this object holds.
C6_FileIsExactlyTheMap ==
    [][Renamed => ParseFile(file'.content) = data]_vars

----------------------------------------------------------------------------
(* C7 *)

\* C7: Get on an absent key. Get(k) returns ("", NotFound) when the load succeeded
\* (or was not needed) and k is not in the map, the value and nil when k is in
\* it, and ("", load error), an error other than NotFound, exactly when the load
\* failed; it never changes the file, never changes the map of a loaded object,
\* and the map it loads into a new object is the parse of the file.
C7_GetAbsentKey ==
    [][Call("Get") =>
            /\ file' = file
            /\ (loaded => (data' = data /\ loaded'))
            /\ (~loaded /\ loaded' /\ data = EmptyMap) => data' = ParseFile(file.content)
            /\ (loaded' /\ ret'.key \notin DOMAIN data')
                  => (ret'.val = <<>> /\ ret'.err = ErrNotFound)
            /\ (loaded' /\ ret'.key \in DOMAIN data')
                  => (ret'.val = data'[ret'.key] /\ ret'.err = Nil)
            /\ ~loaded' => (ret'.val = <<>> /\ ret'.err = ErrLoad)
            /\ ErrLoad # ErrNotFound]_vars

\* Get reported NotFound for a key absent from a file that holds other pairs
C7_Witness ==
    /\ pc = "idle"
    /\ ret.op = "Get"
    /\ ret.err = ErrNotFound
    /\ ret.val = <<>>
    /\ loaded
    /\ file.exists
    /\ DOMAIN data # {}
    /\ data = ParseFile(file.content)

----------------------------------------------------------------------------
(* C8 *)

\* C8: GetOrDefault never fails. GetOrDefault(k, d) returns no error; it returns
\* the stored value when the load succeeded (or was not needed) and k is in the
\* map, for a new object the value the file gives k; and it returns d when k is
\* absent and when the load failed, also when the failed load had put k in the map.
C8_GetOrDefaultNeverFails ==
    [][Call("GetOrDefault") =>
            /\ ret'.err = Nil
            /\ ret'.val = IF loaded' /\ ret'.key \in DOMAIN data'
                           THEN data'[ret'.key] ELSE ret'.arg
            /\ (~loaded /\ loaded' /\ data = EmptyMap)
                  => ret'.val = IF ret'.key \in DOMAIN ParseFile(file.content)
                                THEN ParseFile(file.content)[ret'.key] ELSE ret'.arg]_vars

\* the load failed after it had parsed the key, and the default came back
C8_Witness ==
    /\ pc = "idle"
    /\ ret.op = "GetOrDefault"
    /\ ~loaded
    /\ ret.key \in DOMAIN data
    /\ ret.val = ret.arg
    /\ ret.val # data[ret.key]

----------------------------------------------------------------------------
(* C9 *)

\* C9: Delete semantics. Whenever Delete(k) succeeds, k is not in the map, a newly
\* constructed object does not find k in the file, and the file holds the line of
\* every pair that remains in the map.
C9_DeleteSemantics ==
    [][(Renamed /\ op.name = "Delete")
          => /\ op.key \notin DOMAIN data
             /\ op.key \notin DOMAIN ParseFile(file'.content)
             /\ HasPairs(file'.content, data)]_vars

----------------------------------------------------------------------------
(* C10 *)

\* C10, as claimed: whenever Load runs while the file does not exist, it returns
\* nil and leaves the store loaded with an empty map.
C10_MissingFileEmptyStore ==
    [][(Call("Load") /\ ~file.exists)
          => (ret'.err = Nil /\ loaded' /\ data' = EmptyMap)]_vars

\* C10, amended: while the file does not exist, Load returns nil and marks the
\* store loaded without touching the map; on a store whose map is empty (a newly
\* constructed one) the map stays empty, Get of any key fails with NotFound and
\* Exists is false; and a successful Set creates the file.
C10_MissingFileKeepsMap ==
    /\ [][(Call("Load") /\ ~file.exists)
             => (ret'.err = Nil /\ loaded' /\ data' = data)]_vars
    /\ [][((Call("Get") \/ Call("Exists")) /\ ~file.exists /\ data = EmptyMap)
             => /\ loaded' /\ data' = EmptyMap
                /\ ret'.op = "Get" => ret'.err = ErrNotFound
                /\ ret'.op = "Exists" => ~ret'.found]_vars
    /\ [][(Renamed /\ op.name = "Set") => file'.exists]_vars

\* a new object on a missing file: loaded, empty, and Get found nothing
C10_Witness ==
    /\ pc = "idle"
    /\ ret.op = "Get"
    /\ ret.err = ErrNotFound
    /\ ~file.exists
    /\ loaded
    /\ data = EmptyMap

----------------------------------------------------------------------------
(* C11 *)

\* C11: owner-only permissions. In every Save the temp file has mode 0600, which
\* grants nothing to group and others, from before the header and the first pair
\* are written until the rename; the rename leaves the target with that mode; and
\* the mode of the target changes only by a rename of Save or by another process.
C11_OwnerOnlyPermissions ==
    /\ [](pc \in {"header", "pairs", "sync", "close", "rename"}
            => (tmp.exists /\ OwnerOnly(tmp.mode)))
    /\ [](tmp.content # <<>> => OwnerOnly(tmp.mode))
    /\ [][Renamed => (file'.exists /\ OwnerOnly(file'.mode))]_vars
    /\ [][file'.mode # file.mode => (Renamed \/ ExternalEdit)]_vars

\* a Set returned nil and left its pair in a target only the owner can read
C11_Witness ==
    /\ pc = "idle"
    /\ ret.op = "Set"
    /\ ret.err = Nil
    /\ file.exists
    /\ file.mode = OwnerRW
    /\ HasPairs(file.content, Put(EmptyMap, ret.key, ret.arg))
    /\ file = preSave

----------------------------------------------------------------------------
(* Helpers of the properties of the steps *)

\* this step is the entry of the call named o
Entry(o) == spc = "idle" /\ sret'.op = o

\* the two steps
StepNames == {"RunPreflightChecks", "RunDirectorySetup"}

\* the last call was a step, and it has returned
StepReturned == spc = "idle" /\ sret.op \in StepNames

----------------------------------------------------------------------------
(* C12 *)

\* C12: the marker skip law. Whenever RunPreflightChecks is invoked with
\* preflight-complete present, or RunDirectorySetup with directory-setup-complete
\* present, the invocation returns nil at once, reports that the step is already
\* complete and does nothing else: no check, prompt, directory or write, no change
\* of a setting, of the configuration file or of a marker. Every invocation is
\* covered, so also any number of them in a row.
C12_MarkerSkipLaw ==
    [][((Entry("RunPreflightChecks") /\ preflightCompletionMarker \in markers)
          \/ (Entry("RunDirectorySetup") /\ directoryCompletionMarker \in markers))
         => /\ spc' = "idle"
            /\ sret'.err = Nil
            /\ events' = {"already"}
            /\ markers' = markers
            /\ cfg' = cfg
            /\ UNCHANGED cfgVars]_vars

\* preflight ran to its end earlier (its settings are saved), and the invocation
\* that just returned found the marker and skipped
C12_Witness ==
    /\ spc = "idle"
    /\ sret.op = "RunPreflightChecks"
    /\ sret.err = Nil
    /\ events = {"already"}
    /\ preflightCompletionMarker \in sret.before
    /\ "CONTAINER_RUNTIME" \in DOMAIN cfg

----------------------------------------------------------------------------
(* C13 *)

\* C13: a fatal failure never marks complete. Whenever RunPreflightChecks or
\* RunDirectorySetup has returned an error and its marker was absent when it was
\* invoked, the marker is absent; and the next invocation of the step, finding
\* neither the marker nor a legacy marker to migrate, enters the body again.
C13_FatalNeverMarks ==
    /\ []((StepReturned /\ sret.err # Nil /\ sret.arg \notin sret.before)
            => sret.arg \notin markers)
    /\ [][(StepReturned /\ sret.err # Nil /\ sret.arg \notin sret.before
              /\ Entry(sret.op) /\ directoryLegacyMarker \notin markers)
             => spc' \in {"p_os", "d_user"}]_vars

\* the directory step did all its work and saved the settings, and the creation
\* of the marker failed
C13_Witness ==
    /\ StepReturned
    /\ sret.op = "RunDirectorySetup"
    /\ sret.err = ErrMarker
    /\ "APPDATA_PATH" \in DOMAIN cfg
    /\ directoryCompletionMarker \notin markers

----------------------------------------------------------------------------
(* C14 *)

----------------------------------------------------------------------------
(* Helpers of the properties of the markers *)

\* this step creates the marker n
Gains(n) == n \notin markers /\ n \in markers'

\* this step removes the marker n
Loses(n) == n \in markers /\ n \notin markers'

\* the step is a successful call that creates n: MarkComplete(n), a step whose
\* marker is n, or a migration to n
CreatedBy(n) ==
    /\ sret'.err = Nil
    /\ \/ sret'.op \in {"MarkComplete"} \cup StepNames /\ sret'.arg = n
       \/ sret'.op = "EnsureCanonicalMarker" /\ sret'.arg[1] = n

\* the step is a reset of the markers that the operator confirmed
ConfirmedReset == Entry("resetSetup") /\ sret'.arg = "yes"

\* the step is a call of ensureCanonicalMarker, by itself or at the head of
\* RunDirectorySetup
Migration == Entry("EnsureCanonicalMarker") \/ Entry("RunDirectorySetup")

\* what every version of C17 says of IsComplete, of MarkComplete and of the
\* creation of markers
MarkerTruth ==
    /\ [][Entry("IsComplete") => (sret'.done <=> sret'.arg \in markers')]_vars
    /\ [][Entry("RunPreflightChecks")
             => (events' = {"already"} <=> preflightCompletionMarker \in markers)]_vars
    /\ [][(Entry("MarkComplete") /\ sret'.err = Nil) => sret'.arg \in markers']_vars
    /\ [][Entry("MarkComplete")
             => \A m \in MarkerNames \ {sret'.arg} : (m \in markers') <=> (m \in markers)]_vars
    /\ [][\A n \in MarkerNames : Gains(n) => CreatedBy(n)]_vars

----------------------------------------------------------------------------
(* C17 *)

\* C17, as claimed: IsComplete(n) is true iff the marker n exists, that is iff a
\* MarkComplete(n) or a migration to n has succeeded since the last ClearAll: a
\* marker is created only by a successful MarkComplete(n) (by itself or at the end
\* of a step) or migration to n, it is removed only by ClearAll, and after a
\* ClearAll there is none; MarkComplete(n) changes the completion of no other name.
C17_MarkerPresenceIsTruth ==
    /\ MarkerTruth
    /\ [][\A n \in MarkerNames : Loses(n) => ConfirmedReset]_vars
    /\ [][ConfirmedReset => markers' = {}]_vars

\* C17, amended: as above, but a marker is removed by ClearAll, also by one that
\* fails and leaves other markers in place, or, for a legacy marker, by the
\* migration that created its canonical marker; after a ClearAll that returned
\* nil there is no marker.
C17_MarkerPresence ==
    /\ MarkerTruth
    /\ [][\A n \in MarkerNames :
              Loses(n) => \/ ConfirmedReset
                          \/ /\ Migration
                             /\ n = directoryLegacyMarker
                             /\ directoryCompletionMarker \in markers']_vars
    /\ [][(ConfirmedReset /\ sret'.err = Nil) => markers' = {}]_vars

\* preflight was marked complete, and the reset that just returned cleared it
C17_Witness ==
    /\ spc = "idle"
    /\ sret.op = "resetSetup"
    /\ sret.err = Nil
    /\ sret.done
    /\ preflightCompletionMarker \in sret.before
    /\ markers = {}

----------------------------------------------------------------------------
(* C18 *)

----------------------------------------------------------------------------
(* C19 *)

\* the second of two calls of EnsureCanonicalMarker in a row with the same names,
\* the first having returned no error, returns what the first returned, with no
\* error, and leaves the markers as the first left them
EnsureTwice ==
    [][(spc = "idle" /\ sret.op = "EnsureCanonicalMarker" /\ sret.err = Nil
           /\ Entry("EnsureCanonicalMarker") /\ sret'.arg = sret.arg)
         => (sret'.done = sret.done /\ sret'.err = Nil /\ markers' = markers)]_vars

----------------------------------------------------------------------------
(* The pipeline *)

\* a step of the running RunAll starts: it joins the steps gone through
StepStarts == run.active /\ run'.active /\ Len(run'.started) > Len(run.started)

\* RunAll returns to its caller
RunAllReturned == run.active /\ ~run'.active

\* C15: once a step of RunAll has returned a fatal error, no later step's Run is
\* invoked and no marker is created in that invocation, and the error is what the
\* caller of RunAll, the menu entry included, gets back
C15_FatalAbortsPipeline ==
    /\ [][run.active /\ run.err # Nil =>
            /\ markers' = markers
            /\ run'.ran = run.ran
            /\ run'.started = run.started
            /\ RunAllReturned]_vars
    /\ [][RunAllReturned => sret'.err = run.err /\ run'.err = run.err]_vars

\* the Run of the third step of the menu's RunAll failed, after two steps were
\* marked: the menu entry returned the error and the later steps never started
C15_Witness ==
    /\ ~run.active
    /\ run.caller = "runAllLegacySteps"
    /\ run.err = ErrFatal
    /\ sret.err = ErrFatal
    /\ run.started = <<"preflight", "user", "directory">>
    /\ run.ran = {"preflight", "user", "directory"}
    /\ run.queue = <<"nfs", "container", "deployment">>
    /\ markers = {preflightCompletionMarker, "user"}

\* C16: RunAll goes through the steps in the order preflight, user, directory,
\* wireguard, nfs, container, deployment, without wireguard when the skip flag is
\* set, which the menu entry always sets; a step starts only when the step before
\* it has finished without error or was skipped, and the markers of all the steps
\* before it are persisted
C16_FixedStepOrder ==
    /\ [](run.caller # "none" =>
            /\ run.started \o run.queue =
                  IF run.skipWireGuard
                  THEN <<"preflight", "user", "directory", "nfs", "container",
                         "deployment">>
                  ELSE <<"preflight", "user", "directory", "wireguard", "nfs",
                         "container", "deployment">>
            /\ run.caller = "runAllLegacySteps" => run.skipWireGuard)
    /\ [][StepStarts =>
            /\ spc = "runall"
            /\ run.err = Nil
            /\ run'.started = Append(run.started, Head(run.queue))
            /\ \A i \in 1..Len(run.started) :
                  StepMarker(run.started[i]) \in markers]_vars

\* the menu's RunAll went through its six steps, the first two skipped by their
\* markers and the others run, and every marker is persisted
C16_Witness ==
    /\ ~run.active
    /\ run.caller = "runAllLegacySteps"
    /\ run.err = Nil
    /\ run.queue = <<>>
    /\ Len(run.started) = 6
    /\ run.ran = {"directory", "nfs", "container", "deployment"}
    /\ \A i \in 1..6 : StepMarker(run.started[i]) \in markers

----------------------------------------------------------------------------
(* sendPing *)

\* sendPing has returned a result for a count of at least one
PingReturned == ping.pc = "done" /\ ping.count >= 1

C22_PingWaitsForMatch ==
    ping.pc \in {"loop", "done"} => ping.received = ping.answered

----------------------------------------------------------------------------
(* troubleshoot.Run *)

\* checkNetworkInstability reports what sendPing returned
PingReported == diag.pc = "ping" /\ diag'.pc = "dns"

\* C23: when the raw socket cannot be opened sendPing returns no result and the
\* listen error, the target not resolved and nothing sent; when the socket opens,
\* the target resolves and no reply matches, it returns a result with a loss of
\* 100, a zero average, Unstable, and no error; checkNetworkInstability reports
\* the first as a failed ping and the second as a result, never one as the other
C23_PrivilegeErrorDistinct ==
    /\ [](ping.pc = "failed" /\ ping.err = ErrListen =>
             /\ ping.res = <<>>
             /\ ping.resolve = "untried"
             /\ ping.sends = 0 /\ ping.i = 0)
    /\ [](ping.pc = "done" /\ ping.count >= 1 /\ ping.matched = 0 =>
             /\ ping.err = Nil
             /\ ping.resolve = "ok"
             /\ ping.res # <<>>
             /\ ping.res[1].PacketLoss[1] = 100 * ping.res[1].PacketLoss[2]
             /\ ping.res[1].PacketLoss[2] > 0
             /\ ping.res[1].AvgLatency = 0
             /\ ping.res[1].Unstable)
    /\ [][PingReported =>
             IF ping.pc = "failed"
             THEN diag'.out = Append(diag.out, "Ping failed")
             ELSE /\ ping.pc = "done"
                  /\ diag'.out = diag.out \o
                        <<"Packet Loss", "Avg Latency",
                          IF ping.res[1].Unstable THEN "UNSTABLE" ELSE "STABLE">>]_vars

\* the network has wholly failed: the five requests of Run went out, none was
\* answered, and sendPing returned a result
C23_Witness ==
    /\ diag.pc = "ping"
    /\ diag.netDown
    /\ ping.pc = "done"
    /\ ping.count = PingCount
    /\ ping.sends = PingCount
    /\ ping.matched = 0
    /\ ping.res[1].Unstable

\* C24: the Unstable of a result is true iff its PacketLoss is above zero, that
\* is some probe was not matched, or its AvgLatency is above 100 ms; with every
\* reply matched and an average of 100 ms or less the result is stable
C24_InstabilityClassification ==
    ping.pc = "done" /\ ping.count >= 1 =>
       /\ ping.res[1].Unstable <=>
             \/ ping.res[1].PacketLoss[1] > 0
             \/ ping.res[1].AvgLatency > 100
       /\ ping.res[1].PacketLoss[1] > 0 <=> ping.matched < ping.count
       /\ ping.matched = ping.count /\ ping.res[1].AvgLatency <= 100 =>
             ~ping.res[1].Unstable

\* two probes, both matched, with 50 and 150 ms: an average of exactly 100 ms,
\* and a stable result
C24_Witness ==
    /\ ping.pc = "done"
    /\ ping.count = 2
    /\ ping.matched = 2
    /\ ping.oursLat = <<50, 150>>
    /\ ping.res[1].AvgLatency = 100
    /\ ~ping.res[1].Unstable

\* the line x is among those Run has printed
Printed(x) == \E i \in DOMAIN diag.out : diag.out[i] = x

\* the call o is among those checkDNS has made
Called(o) == \E i \in DOMAIN diag.ops : diag.ops[i][1] = o

IsPrefix(a, b) == Len(a) <= Len(b) /\ SubSeq(b, 1, Len(a)) = a

\* what checkDNS has printed after its heading
DNSPrinted ==
    LET k == CHOOSE i \in DOMAIN diag.out : diag.out[i] = "2. DNS Diagnostics"
    IN  SubSeq(diag.out, k + 1, Len(diag.out))

\* C26: after a failed system lookup checkDNS reports the resolver configuration
\* (its content, or a warning), then dials the public resolver whatever the first
\* tier gave; unreachable, it reports the connectivity diagnosis and looks nothing
\* up; reachable, it reports the local-resolver diagnosis and makes exactly one
\* lookup through the resolver, reporting its outcome; one diagnosis per run
C26_DNSFallbackOrder ==
    /\ [](diag.pc \in {"ports", "returned"} /\ diag.ops[1][2] # "addresses" =>
             LET o == diag.ops IN
             /\ Len(o) \in {3, 4}
             /\ o[1][1] = "LookupHost" /\ o[2][1] = "ReadFile" /\ o[3][1] = "DialTimeout"
             /\ Len(o) = 4 => o[4][1] = "Resolver.LookupHost"
             /\ Len(o) = 3 <=> o[3][2] = "unreachable"
             /\ Printed("Likely a gateway/internet connectivity issue")
                   <=> ~Printed("Local DNS configuration might be broken")
             /\ DNSPrinted =
                   <<"Resolution failed", "Starting tiered diagnostics", "Tier 1",
                     IF o[2][2] = "read" THEN "resolv.conf"
                     ELSE "Could not read resolv.conf",
                     "Tier 2">> \o
                   IF o[3][2] = "unreachable"
                   THEN <<"Likely a gateway/internet connectivity issue">>
                   ELSE <<"Local DNS configuration might be broken",
                          IF o[4][2] = "addresses"
                          THEN "Direct resolution successful"
                          ELSE "Direct resolution failed">>)
    /\ [][diag.pc # "none" =>
             IsPrefix(diag.ops, diag'.ops) /\ IsPrefix(diag.out, diag'.out)]_vars

\* the system lookup failed, the resolver configuration could not be read, the
\* public resolver was reached and the lookup through it gave an address
C26_Witness ==
    /\ diag.pc = "returned"
    /\ diag.ops = <<<<"LookupHost", "error">>, <<"ReadFile", "unreadable">>,
                    <<"DialTimeout", "reached">>,
                    <<"Resolver.LookupHost", "addresses">>>>
    /\ Printed("Direct resolution successful")

\* C27: checkPortScanning probes the pairs (80, HTTP), (443, HTTPS), (9000,
\* Portainer), (9443, Portainer SSL) once each in that order; a pair is OPEN iff
\* its connect succeeded and CLOSED/FILTERED for a refusal as for a timeout; a
\* failed connect stops nothing and Run returns nil
C27_PortScanClassification ==
    LET pairs == <<<<"80", "HTTP (NPM)">>, <<"443", "HTTPS (NPM)">>,
                   <<"9000", "Portainer">>, <<"9443", "Portainer (SSL)">>>>
    IN  /\ Len(diag.scan) <= 4
        /\ \A i \in DOMAIN diag.scan :
              /\ <<diag.scan[i].Port, diag.scan[i].Service>> = pairs[i]
              /\ diag.scan[i].status = "OPEN" <=> diag.scan[i].result = "connected"
              /\ diag.scan[i].status = "CLOSED/FILTERED"
                    <=> diag.scan[i].result \in {"refused", "timeout"}
        /\ diag.pc = "returned" => Len(diag.scan) = 4 /\ diag.err = Nil
        /\ diag.pc = "ports" => Len(diag.scan) + Len(diag.todo) = 4

\* the scan is through: the first port refused, the second timed out, the last
\* two were open
C27_Witness ==
    /\ diag.pc = "returned"
    /\ Len(diag.scan) = 4
    /\ diag.scan[1].result = "refused" /\ diag.scan[1].status = "CLOSED/FILTERED"
    /\ diag.scan[2].result = "timeout" /\ diag.scan[2].status = "CLOSED/FILTERED"
    /\ diag.scan[3].status = "OPEN" /\ diag.scan[3].Port = "9000"
    /\ diag.scan[4].status = "OPEN"

\* C28: with the network wholly failed or not, a Run that has started returns,
\* with nil, every network wait of its three phases being bounded by a timeout
C28_DiagnosticsTerminate ==
    diag.pc = "ping" ~> (diag.pc = "returned" /\ diag.err = Nil)

----------------------------------------------------------------------------
(* Save and its writes *)

\* C29: a failed or short write of the header or of a pair makes Save return an
\* error without renaming: the temp file Save renames over the target holds the
\* header and the line of every pair of the map, and Save returns nil only after
\* renaming such a file
C29_WriteFailuresSurfaced ==
    /\ [][Renamed =>
             \E ts \in TimeStamps, t \in PairTexts(data, DOMAIN data) :
                tmp.content = Header(ts) \o t]_vars
    /\ [][pc = "defer" /\ pc' = "idle" /\ ret'.err = Nil =>
             HasPairs(preSave.content, data)]_vars

----------------------------------------------------------------------------
(* The delay of sendPing *)

\* C30: between every two consecutive requests sendPing sends, the 200 ms delay
\* was inserted, whatever became of the first of the two
C30_InterSendDelay ==
    [][ping.pc = "loop" /\ ping'.sends > ping.sends /\ ping.sends > 0
          => ping.slept]_vars

----------------------------------------------------------------------------
(* The steps and what they leave behind *)

\* this step of a step function creates the marker n
MarkerCreated(n) == n \notin markers /\ n \in markers'

\* the settings s hold v under k
Holds(s, k, v) == k \in DOMAIN s /\ s[k] = v

\* C31: when RunDirectorySetup creates its marker, the directories were created
\* and verified before and the file holds CONTAINERS_BASE, APPDATA_BASE and
\* APPDATA_PATH; when RunPreflightChecks creates its marker, its five fatal checks
\* have all passed; and the creation of the marker is the last change of the step
C31_MarkerIsLastWrite ==
    /\ [][spc = "d_mark" /\ MarkerCreated(directoryCompletionMarker) =>
             /\ {"mkdir", "write", "check", "set"} \subseteq events
             /\ Holds(disk, "CONTAINERS_BASE", loc.containersBase)
             /\ Holds(disk, "APPDATA_BASE", appdataBase)
             /\ Holds(disk, "APPDATA_PATH", appdataBase)
             /\ spc' = "idle" /\ cfg' = cfg /\ disk' = disk]_vars
    /\ [][spc = "p_end" /\ MarkerCreated(preflightCompletionMarker) =>
             /\ Len(loc.checks) >= 5
             /\ \A i \in 1..5 : loc.checks[i].passed
             /\ spc' = "idle" /\ cfg' = cfg /\ disk' = disk]_vars

\* RunPreflightChecks returns, having gone through its checks
PreflightReturned == spc = "p_end" /\ spc' = "idle"

\* the checks of a RunPreflightChecks that found no marker were the five fatal
\* ones in their order, then the NFS check iff a server is configured
RanAllChecks ==
    /\ Len(loc.checks) = IF CfgGetOrDefault(cfg, "NFS_SERVER") = "" THEN 5 ELSE 6
    /\ [i \in 1..5 |-> loc.checks[i].name] =
          <<"p_os", "p_pkg", "p_runtime", "p_sudo", "p_net">>
    /\ Len(loc.checks) = 6 => loc.checks[6].name = "p_nfs"

\* the number of the five fatal checks that failed
FailedFatal == Cardinality({i \in 1..5 : ~loc.checks[i].passed})

\* C32: without its marker RunPreflightChecks runs its five fatal checks in
\* order whatever failed, then the NFS check when a server is configured; it
\* returns an error iff one of the five failed, and the count it reports is the
\* number of the five that failed
C32_PreflightNoShortCircuit ==
    [][PreflightReturned =>
          /\ RanAllChecks
          /\ sret'.err # Nil <=> FailedFatal > 0
          /\ FailedFatal > 0 => sret'.count = FailedFatal]_vars

\* C32, amended: as above, but the error that tells of failed checks is returned
\* iff one of the five failed; with all five passed the step returns nil, or the
\* error of a marker that could not be created
C32_PreflightRunsAllChecks ==
    [][PreflightReturned =>
          /\ RanAllChecks
          /\ sret'.err = ErrPreflight <=> FailedFatal > 0
          /\ FailedFatal > 0 => sret'.count = FailedFatal
          /\ FailedFatal = 0 =>
                /\ sret'.err \in {Nil, ErrMarker}
                /\ sret'.err = Nil => preflightCompletionMarker \in markers'
                /\ sret'.err = ErrMarker => preflightCompletionMarker \notin markers']_vars

\* four fatal checks failed and so did the NFS check: the step returned the error
\* of four failed checks, and a warning for NFS
C32_Witness ==
    /\ spc = "idle"
    /\ sret.op = "RunPreflightChecks"
    /\ sret.err = ErrPreflight
    /\ sret.count = 4
    /\ "warn-nfs" \in events
    /\ preflightCompletionMarker \notin markers

\* RunDirectorySetup returns in this step: from its entry, or from its body
DirectoryReturned ==
    /\ spc' = "idle"
    /\ sret'.op = "RunDirectorySetup"
    /\ spc # "idle" \/ sret' # sret

\* the operator was asked nothing, no directory or file was made, no setting
\* written and the marker not created
NothingDone ==
    /\ events' \cap {"prompt", "mkdir", "write", "set", "check"} = {}
    /\ cfg' = cfg /\ disk' = disk
    /\ directoryCompletionMarker \notin markers'

\* C33: with its marker absent under both its names (ensureCanonicalMarker finds
\* nothing to report or to migrate) and HOMELAB_USER unset or empty, or the
\* configuration not loadable, RunDirectorySetup returns an error with nothing done
C33_DirectoryDependency ==
    /\ [][DirectoryReturned
             /\ sret'.before \cap {directoryCompletionMarker, directoryLegacyMarker} = {}
             /\ CfgGetOrDefault(cfg, "HOMELAB_USER") = ""
             => sret'.err \in {ErrNoUser, ErrMarkerCheck} /\ NothingDone]_vars
    /\ [][spc = "d_user" /\ spc' = "idle" => sret'.err = ErrNoUser /\ NothingDone]_vars

\* no marker and no HOMELAB_USER: the step returned the error of the missing
\* user, having done nothing
C33_Witness ==
    /\ spc = "idle"
    /\ sret.op = "RunDirectorySetup"
    /\ sret.err = ErrNoUser
    /\ sret.before = {}
    /\ "HOMELAB_USER" \notin DOMAIN cfg
    /\ events = {"fatal"}
    /\ markers = {}

\* C34: whenever RunPreflightChecks creates its marker, the configuration file
\* holds the compose command and the container runtime that
\* checkContainerRuntime chose
C34_PreflightRecordsRuntime ==
    [][MarkerCreated(preflightCompletionMarker) /\ spc = "p_end"
          => /\ Holds(disk', "CONTAINER_RUNTIME", "docker")
             /\ \E compose \in ComposeCommands \ {"none"} :
                   Holds(disk', "COMPOSE_COMMAND", compose)]_vars

(* The loaded flag *)

\* the map after a Load that reads the whole file, or finds none
Reloaded ==
    IF file.exists
    THEN ParseLines(data, ScanLines(file.content), Len(ScanLines(file.content)))
    ELSE data

\* this step is a call of one of the read operations
ReadCall ==
    /\ pc = "idle" /\ pc' = "idle"
    /\ ret'.op \in {"Get", "GetOrDefault", "Exists", "GetAll"}
    /\ ~ExternalEdit

\* this step is a call of Set or Delete, up to its call of Save or to the return
\* of the error of its load
WriteCall ==
    /\ pc = "idle"
    /\ \/ pc' = "mkdir"
       \/ /\ pc' = "idle"
          /\ ret'.err \in {ErrLoadBeforeSet, ErrLoadBeforeDelete}
          /\ ~ExternalEdit

\* what a read operation returns when its load failed
LoadFailureReported ==
    CASE ret'.op = "Get" -> ret'.err = ErrLoad
      [] ret'.op = "GetOrDefault" -> ~ret'.found /\ ret'.val = ret'.arg
      [] ret'.op \in {"Exists", "GetAll"} -> ~ret'.found
      [] OTHER -> ret'.err \in {ErrLoadBeforeSet, ErrLoadBeforeDelete}

\* the map a Set or Delete hands to Save, the map before the mutation being m
Mutated(m) ==
    IF op'.name = "Set" THEN Put(m, op'.key, op'.val) ELSE Remove(m, op'.key)

\* C35: the flag of an object becomes true only in a Load that read the whole
\* file or found none, and false only by the construction of a new object; while
\* it is false every read operation, Set and Delete loads first and leaves it
\* false when the load fails; once it is true none of them reads the file
C35_LoadedFlagDiscipline ==
    /\ [][~loaded /\ loaded'
             => /\ ReadCall \/ WriteCall \/ Call("Load")
                /\ ret'.err \notin {ErrLoad, ErrOpen, ErrRead,
                                    ErrLoadBeforeSet, ErrLoadBeforeDelete}
                /\ data' = IF pc' = "mkdir" THEN Mutated(Reloaded) ELSE Reloaded]_vars
    /\ [][loaded /\ ~loaded' => data' = EmptyMap /\ ret' = NoRet /\ op' = NoOp]_vars
    /\ [][~loaded /\ (ReadCall \/ WriteCall)
             => \/ loaded' /\ data' = IF pc' = "mkdir" THEN Mutated(Reloaded) ELSE Reloaded
                \/ ~loaded' /\ pc' = "idle" /\ LoadFailureReported]_vars
    /\ [][loaded /\ ReadCall => loaded' /\ data' = data]_vars
    /\ [][loaded /\ WriteCall => loaded' /\ pc' = "mkdir" /\ data' = Mutated(data)]_vars

\* a loaded object answered Get(k) with "not found" while the file, changed by
\* another process since the load, holds k: the file was not read again
C35_Witness ==
    /\ pc = "idle"
    /\ loaded
    /\ ret.op = "Get"
    /\ ret.err = ErrNotFound
    /\ ret.key \notin DOMAIN data
    /\ file.exists
    /\ ret.key \in DOMAIN ParseFile(file.content)

(* Set and Delete whose Save fails *)

\* Save returns an error to Set or Delete in this step
PersistFailed ==
    /\ pc # "idle" /\ pc' = "idle"
    /\ ret'.op \in {"Set", "Delete"}
    /\ ret'.err # Nil

\* C36: when Set(k, v) or Delete(k) returns the error of its Save, the map of the
\* object is the map it had before the call
C36_FailedPersistLeavesMap ==
    [][PersistFailed => ~op.changed /\ data' = data]_vars

(* Load on hand-written files *)

\* the number of lines of the files Load is tried on
MaxLines == 3

\* the lines an editor may leave: pairs plain and with blanks around key and
\* value, an indented comment that looks like a pair, a blank line, a line without '=', a value holding '=', an
\* empty key, an empty value before a carriage return
FileLines ==
    { <<"A", "=", "x">>,
      <<" ", "A", " ", "=", " ", "y", "\t">>,
      <<" ", "#", "A", "=", "x">>,
      <<>>,
      <<"A">>,
      <<"B", "=", "x", "=", "y">>,
      <<"=", "x">>,
      <<"B", "=", "\r">> }

\* the lines ls as the text of a file, the last one ended by a newline or not
RECURSIVE JoinLines(_, _)
JoinLines(ls, closed) ==
    IF ls = <<>> THEN <<>>
    ELSE IF Len(ls) = 1 /\ ~closed THEN Head(ls)
    ELSE Head(ls) \o <<NL>> \o JoinLines(Tail(ls), closed)

LineSeqs == UNION {[1..n -> FileLines] : n \in 0..MaxLines}

\* the files: with or without the header Save writes, then the lines
ParseInputs ==
    {OnDisk(h \o JoinLines(ls, closed), OwnerRW) :
        h \in {<<>>, Header("1")}, ls \in LineSeqs, closed \in BOOLEAN}

InitParse ==
    /\ StepsAtRest
    /\ run = NoRun
    /\ ping = NoPing
    /\ diag = NoDiag
    /\ menu = NoMenu
    /\ file \in ParseInputs
    /\ data = EmptyMap
    /\ loaded = FALSE
    /\ pc = "idle"
    /\ op = NoOp
    /\ tmp = NoTmp
    /\ todo = {}
    /\ ret = NoRet
    /\ acked = [k \in KeySet |-> NoAck]
    /\ preSave = file

NextParse ==
    \/ Load
    \/ New

SpecParse == InitParse /\ [][NextParse]_vars

\* the text c cut at its newlines
RECURSIVE CutAtNewlines(_)
CutAtNewlines(c) ==
    IF \A i \in 1..Len(c) : c[i] # NL THEN <<c>>
    ELSE LET i == CHOOSE j \in 1..Len(c) : c[j] = NL /\ \A h \in 1..(j - 1) : c[h] # NL
         IN  <<SubSeq(c, 1, i - 1)>> \o CutAtNewlines(SubSeq(c, i + 1, Len(c)))

Blank(l) == \A i \in 1..Len(l) : IsSpace(l[i])

\* the positions of the first and the last character of l that is not a blank
FirstInk(l) == CHOOSE i \in 1..Len(l) : ~IsSpace(l[i]) /\ \A j \in 1..(i - 1) : IsSpace(l[j])

LastInk(l) == CHOOSE i \in 1..Len(l) : ~IsSpace(l[i]) /\ \A j \in (i + 1)..Len(l) : IsSpace(l[j])

Trimmed(s) == IF Blank(s) THEN <<>> ELSE SubSeq(s, FirstInk(s), LastInk(s))

\* the line holds a pair: not blank, not a comment, and with an '='
IsPairLine(l) == ~Blank(l) /\ l[FirstInk(l)] # "#" /\ \E i \in 1..Len(l) : l[i] = "="

FirstEquals(l) == CHOOSE i \in 1..Len(l) : l[i] = "=" /\ \A j \in 1..(i - 1) : l[j] # "="

KeyIn(l) == Trimmed(SubSeq(l, 1, FirstEquals(l) - 1))

ValueIn(l) == Trimmed(SubSeq(l, FirstEquals(l) + 1, Len(l)))

\* the mapping the text c describes: each key of a pair line with the value of
\* the last pair line that holds it
Described(c) ==
    LET ls == CutAtNewlines(c)
        pairs == {i \in 1..Len(ls) : IsPairLine(ls[i])}
        last(k) == CHOOSE i \in pairs :
                      KeyIn(ls[i]) = k /\ \A j \in pairs : KeyIn(ls[j]) = k => j <= i
    IN  [k \in {KeyIn(ls[i]) : i \in pairs} |-> ValueIn(ls[last(k)])]

\* the text of the file after a header of Save, the whole text when it has none
AfterHeader(c) ==
    IF IsPrefix(Header("1"), c) THEN SubSeq(c, Len(Header("1")) + 1, Len(c)) ELSE c

\* C37: a Load that succeeds leaves exactly the mapping the lines of the file
\* describe (blank lines, comment lines and lines without '=' ignored, key and
\* value trimmed around the first '=', a later line overriding an earlier one),
\* and the header of Save adds nothing to it
C37_ConfigFileParsing ==
    [][Call("Load") /\ ret'.err = Nil /\ file.exists
          => /\ data' = Described(file.content)
             /\ data' = Described(AfterHeader(file.content))]_vars

\* a file with the header, a pair, a comment that looks like a pair and a later
\* pair with blanks for the same key was loaded
C37_Witness ==
    /\ loaded
    /\ ret.op = "Load"
    /\ ret.err = Nil
    /\ file.content = Header("1") \o <<"A", "=", "x", NL>> \o <<" ", "#", "A", "=", "x", NL>>
                         \o <<" ", "A", " ", "=", " ", "y", "\t">>
    /\ data = Put(EmptyMap, <<"A">>, <<"y">>)

(* The menu, the steps called without it, and the callers of the prompts.        *)
(* menu.at tells who drives the UI: the main menu ("main"), the confirmations of *)
(* runLegacySetup ("confirm"), the legacy menu ("legacy"), nobody after Show     *)
(* returned ("returned"), a step called without the menu ("none"), or a caller   *)
(* of one prompt function ("prompt").                                            *)

ErrInvalidChoice == "invalid choice"

\* what the operator may type at the main menu
MainChoices == {"1", "4", "H", "X", "?"}

\* what the operator may type at the legacy menu, the entries that start a step,
\* RunAll or the reset apart
LegacyChoices == {"7", "B", "?"}

MenuUnchanged == UNCHANGED <<cfgVars, stepVars, run, ping, diag>>

\* one turn of the loop of Menu.Show: the prompt, then handleChoice. An error of
\* the prompt ends Show; "X" ends it with nil; "4" is runLegacySetup, which
\* begins its confirmations; the help, the tools and an invalid choice come back
\* to the menu, the error of a tool being printed
Show ==
    /\ menu.at = "main"
    /\ spc = "idle"
    /\ \E typed \in TypedFrom(MainChoices) :
          LET choice == PromptInput(menu.nonInteractive, "", typed) IN
          IF choice.err # Nil
          THEN menu' = [menu EXCEPT !.at = "returned", !.err = choice.err]
          ELSE CASE choice.value = "X" ->
                      menu' = [menu EXCEPT !.at = "returned", !.err = Nil]
                 [] choice.value = "4" ->
                      menu' = [menu EXCEPT !.at = "confirm", !.i = 1, !.yes = 0,
                                           !.err = Nil]
                 [] choice.value = "H" ->
                      menu' = [menu EXCEPT !.err = Nil]
                 [] choice.value = "1" ->
                      \E e \in {Nil, ErrFatal} : menu' = [menu EXCEPT !.err = e]
                 [] OTHER ->
                      menu' = [menu EXCEPT !.err = ErrInvalidChoice]
    /\ MenuUnchanged

\* a runLegacySetup that asks once
AsksAgain_Never(i) == FALSE

\* for i := 1; i <= 3; i++: after the answer to question i another one follows
AsksAgain(i) == i + 1 <= 3

\* one confirmation of runLegacySetup: PromptYesNo(.., false). An error returns
\* to Show, which prints it; "no" cancels; "yes" asks again or opens the
\* legacy menu
runLegacySetup ==
    /\ menu.at = "confirm"
    /\ spc = "idle"
    /\ \E confirm \in PromptYesNoAnswers(FALSE) :
          CASE confirm = "error" ->
                  menu' = [menu EXCEPT !.at = "main", !.i = 0, !.yes = 0,
                                       !.err = ErrPromptFailed]
            [] confirm = "no" ->
                  menu' = [menu EXCEPT !.at = "main", !.i = 0, !.yes = 0, !.err = Nil]
            [] OTHER ->
                  IF AsksAgain(menu.i)
                  THEN menu' = [menu EXCEPT !.i = @ + 1, !.yes = @ + 1]
                  ELSE menu' = [menu EXCEPT !.at = "legacy", !.i = 0, !.yes = @ + 1]
    /\ MenuUnchanged

\* one turn of showLegacyMenu on an entry that starts nothing: an error of the
\* prompt returns to Show, "B" goes back, the status and an invalid choice stay
showLegacyMenu ==
    /\ menu.at = "legacy"
    /\ spc = "idle"
    /\ \E typed \in TypedFrom(LegacyChoices) :
          LET choice == PromptInput(menu.nonInteractive, "", typed) IN
          IF choice.err # Nil
          THEN menu' = [menu EXCEPT !.at = "main", !.yes = 0, !.err = choice.err]
          ELSE IF choice.value = "B"
          THEN menu' = [menu EXCEPT !.at = "main", !.yes = 0, !.err = Nil]
          ELSE UNCHANGED menu
    /\ MenuUnchanged

\* entry "1" of the legacy menu
LegacyRunAll == menu.at = "legacy" /\ runAllLegacySteps

\* entry "6" of the legacy menu
LegacyReset == menu.at = "legacy" /\ resetSetup

\* entry "3" of the legacy menu, or the directory step called without the menu
DirectoryStarts == menu.at \in {"legacy", "none"} /\ DirectoryEnter

\* the options and the defaults the callers of the prompts pass
OptionLists == {<<>>, <<"a">>, <<"a", "b">>}

Defaults == {"", "d"}

\* a caller invokes one of the prompt functions with the argument arg: the
\* default, or the options
Asked(fn, arg, res) == [fn |-> fn, arg |-> arg, res |-> res]

Asks(r) == menu' = [menu EXCEPT !.asked = r]

Prompt ==
    /\ menu.at = "prompt"
    /\ \/ \E d \in BOOLEAN, t \in TypedFrom(YesNoLines) :
             Asks(Asked("PromptYesNo", d, PromptYesNo(menu.nonInteractive, d, t)))
       \/ \E d \in Defaults, t \in TypedFrom({"", "v"}) :
             Asks(Asked("PromptInput", d, PromptInput(menu.nonInteractive, d, t)))
       \/ Asks(Asked("PromptPassword", "", PromptPassword))
       \/ \E o \in OptionLists, t \in TypedFrom({"0", "2", "x"}) :
             Asks(Asked("PromptSelect", o, PromptSelect(menu.nonInteractive, o, t)))
       \/ \E o \in OptionLists, t \in TypedFrom({<<>>, <<"1", "2">>, <<"1", "x">>}) :
             Asks(Asked("PromptMultiSelect", o,
                        PromptMultiSelect(menu.nonInteractive, o, t)))
       \/ \E t \in TypedFrom({"", "v"}) :
             Asks(Asked("PromptInputRequired", "",
                        PromptInputRequired(menu.nonInteractive, t, 0)))
    /\ MenuUnchanged

\* the settings of a machine before and after a user and a containers directory
\* were configured; the menu is tried on the machine nothing is configured on
MenuSettings ==
    { EmptyMap,
      Put(Put(EmptyMap, "HOMELAB_USER", "core"), "NFS_SERVER", "nas"),
      Put(Put(EmptyMap, "HOMELAB_USER", "core"), "CONTAINERS_BASE", "/srv/data") }

InitMenu ==
    /\ ConfigAtRest
    /\ ping = NoPing
    /\ diag = NoDiag
    /\ run = NoRun
    /\ markers \in {{}, {directoryLegacyMarker}}
    /\ cfg \in MenuSettings
    /\ disk = cfg
    /\ spc = "idle"
    /\ loc = NoLoc
    /\ sret = NoStepRet
    /\ events = {}
    /\ menu \in {[NoMenu EXCEPT !.at = a, !.nonInteractive = n] :
                    a \in {"main", "none", "prompt"}, n \in BOOLEAN}
    /\ menu.at # "none" => cfg = EmptyMap

NextMenu ==
    \/ Show
    \/ runLegacySetup
    \/ showLegacyMenu
    \/ LegacyRunAll
    \/ RunAllStartsStep
    \/ RunAllStepReturns
    \/ RunAllReturns
    \/ LegacyReset
    \/ Prompt
    \/ DirectoryStarts
    \/ DirectoryUser
    \/ DirectoryExisting
    \/ DirectoryInput
    \/ DirectoryCreateBase
    \/ DirectoryCreateAppdata
    \/ DirectoryVerifyPermissions
    \/ DirectoryNFSMountPoints
    \/ DirectoryVerify
    \/ DirectorySaveBase
    \/ DirectorySaveAppdata
    \/ DirectorySaveAppdataPath
    \/ DirectoryFinish

SpecMenu == InitMenu /\ [][NextMenu]_vars

(* The gate before the legacy menu *)

WasAsked(fn) == menu.nonInteractive /\ menu.asked.fn = fn

\* without an operator no prompt reads a line; PromptYesNo and PromptInput return
\* their default, PromptInput and PromptInputRequired fail without one, and
\* PromptMultiSelect returns every index
HeadlessPrompts ==
    /\ menu.nonInteractive => menu.asked.res.reads = 0
    /\ WasAsked("PromptYesNo") => menu.asked.res = Prompted(menu.asked.arg, Nil, 0)
    /\ WasAsked("PromptInput")
          => IF menu.asked.arg = ""
             THEN menu.asked.res.err = ErrNoDefault
             ELSE menu.asked.res = Prompted(menu.asked.arg, Nil, 0)
    /\ WasAsked("PromptMultiSelect")
          => /\ menu.asked.res.err = Nil
             /\ menu.asked.res.value = [i \in 1..Len(menu.asked.arg) |-> i - 1]
    /\ WasAsked("PromptInputRequired") => menu.asked.res.err = ErrNoDefault

\* the directory the step goes on with when nobody is asked
HeadlessBase ==
    IF CfgGetOrDefault(cfg, "CONTAINERS_BASE") # ""
    THEN CfgGetOrDefault(cfg, "CONTAINERS_BASE") ELSE "/srv/containers"

\* without an operator the prompts of RunDirectorySetup do not fail and bring
\* the directory configured before, or /srv/containers
HeadlessDirectory ==
    [][menu.nonInteractive /\ spc \in {"d_existing", "d_input"}
          => /\ spc' \in {"d_input", "d_mk"}
             /\ spc' = "d_mk" => loc'.containersBase = HeadlessBase]_vars

\* without an operator Menu.Show returns the error of its first prompt
HeadlessShow ==
    /\ [](menu.nonInteractive => menu.at \notin {"confirm", "legacy"})
    /\ [][menu.nonInteractive /\ menu.at = "main" /\ menu' # menu
             => menu'.at = "returned" /\ menu'.err = ErrNoDefault]_vars

====
